---- MODULE Spec2Model ----
(***************************************************************************)
(* A model of the worldview globe application: the multi-slot overlay      *)
(* orientation engine (CountryOverlay), the hover / click picker (Globe)   *)
(* and the TopoJSON arc decoder (CountryLoader).                           *)
(*                                                                         *)
(* Numbers.  The program computes in IEEE doubles.  The model computes in  *)
(* exact rationals <<n, d>> (d > 0, lowest terms) and draws its inputs     *)
(* (ring coordinates, camera positions, screen points, twist angles) from  *)
(* sets on which every square root and every sine the code takes is        *)
(* rational, so that the code's formulas are evaluated exactly.            *)
(***************************************************************************)
EXTENDS Integers, Sequences, FiniteSets, Bags, TLC

NULL == "null"
\* null / undefined where the program otherwise holds a vector or a number
NONE == <<>>
UNDEFINED == -1

\* ------------------------------------------------------------------------
\* Exact rational arithmetic (the model's stand-in for JS numbers)
\* ------------------------------------------------------------------------
Abs(n) == IF n < 0 THEN -n ELSE n

RECURSIVE Gcd(_, _)
Gcd(a, b) == IF b = 0 THEN a ELSE Gcd(b, a % b)

\* The({e : x \in {v}}) is e with the local constant x set to the value of
\* v: v is computed once, before e.
The(S) == CHOOSE r \in S : TRUE

Q(n, d) ==
  The({ <<(s * n) \div g, (s * d) \div g>> :
          g \in {Gcd(Abs(n), Abs(d))}, s \in {IF d < 0 THEN -1 ELSE 1} })

\* Strict(v, e) is e, with v evaluated first.
Strict(v, e) == IF v = v THEN e ELSE e

Zero == <<0, 1>>
One == <<1, 1>>
I2Q(n) == <<n, 1>>

\* Sums and products cancel common factors before they multiply, and
\* comparisons go by continued fractions, so that no intermediate value is
\* larger than the operands and the result require.
QAdd(a, b) ==
  The({ Q(a[1] * (b[2] \div g) + b[1] * (a[2] \div g), (a[2] \div g) * b[2]) :
          g \in {Gcd(a[2], b[2])} })
QNeg(a) == <<-a[1], a[2]>>
QSub(a, b) == QAdd(a, QNeg(b))
QMul(a, b) ==
  The({ Q((a[1] \div g1) * (b[1] \div g2), (a[2] \div g2) * (b[2] \div g1)) :
          g1 \in {Gcd(Abs(a[1]), b[2])}, g2 \in {Gcd(Abs(b[1]), a[2])} })
QDiv(a, b) == QMul(a, IF b[1] < 0 THEN <<-b[2], -b[1]>> ELSE <<b[2], b[1]>>)
\* a1 / a2 < b1 / b2, for positive a2 and b2
RECURSIVE FracLess(_, _, _, _)
FracLess(a1, a2, b1, b2) ==
  IF a1 \div a2 # b1 \div b2 THEN a1 \div a2 < b1 \div b2
  ELSE IF a1 % a2 = 0 THEN b1 % b2 > 0
  ELSE IF b1 % b2 = 0 THEN FALSE
  ELSE FracLess(b2, b1 % b2, a2, a1 % a2)
QLt(a, b) == FracLess(a[1], a[2], b[1], b[2])
QLe(a, b) == ~QLt(b, a)
QAbs(a) == <<Abs(a[1]), a[2]>>
QMax(a, b) == IF QLt(a, b) THEN b ELSE a
QMin(a, b) == IF QLt(a, b) THEN a ELSE b

\* Math.sqrt on a perfect square, by bisection.  Every input of the model
\* is chosen so that the square roots the program takes are rational;
\* CHOOSE fails (and TLC stops) if an input ever leaves that domain.
RECURSIVE ISqrtBetween(_, _, _)
ISqrtBetween(n, lo, hi) ==
  IF lo >= hi THEN lo
  ELSE LET mid == (lo + hi + 1) \div 2
       IN  IF mid <= n \div mid THEN ISqrtBetween(n, mid, hi) ELSE ISqrtBetween(n, lo, mid - 1)

ISqrt(n) == CHOOSE k \in {ISqrtBetween(n, 0, n)} : k * k = n
QSqrt(a) == <<ISqrt(a[1]), ISqrt(a[2])>>

\* ------------------------------------------------------------------------
\* THREE.Vector3 / Matrix (3x3 part of Matrix4) / Quaternion
\* ------------------------------------------------------------------------
Vec(x, y, z) == <<I2Q(x), I2Q(y), I2Q(z)>>
VAdd(a, b) == <<QAdd(a[1], b[1]), QAdd(a[2], b[2]), QAdd(a[3], b[3])>>
VScale(a, k) == <<QMul(a[1], k), QMul(a[2], k), QMul(a[3], k)>>
VSub(a, b) == VAdd(a, VScale(b, I2Q(-1)))
Dot(a, b) == QAdd(QAdd(QMul(a[1], b[1]), QMul(a[2], b[2])), QMul(a[3], b[3]))
Cross(a, b) ==
  << QSub(QMul(a[2], b[3]), QMul(a[3], b[2])),
     QSub(QMul(a[3], b[1]), QMul(a[1], b[3])),
     QSub(QMul(a[1], b[2]), QMul(a[2], b[1])) >>
LengthSq(a) == Dot(a, a)
\* Vector3.normalize(): divideScalar(length() || 1)
\* (the vector is first divided by its largest component, which leaves the
\* result as it is and the squares small)
Normalize(a) ==
  The({ IF m = Zero THEN a
        ELSE The({ VScale(r, QDiv(One, QSqrt(LengthSq(r)))) :
                     r \in {VScale(a, QDiv(One, m))} }) :
          m \in {QMax(QMax(QAbs(a[1]), QAbs(a[2])), QAbs(a[3]))} })
\* a.addScaledVector(v, s)
AddScaledVector(a, v, s) == VAdd(a, VScale(v, s))

\* Matrix4.makeBasis(x, y, z): the three vectors are the columns.
makeBasis(x, y, z) ==
  << <<x[1], y[1], z[1]>>,
     <<x[2], y[2], z[2]>>,
     <<x[3], y[3], z[3]>> >>

MatEntry(A, B, i, j) ==
  QAdd(QAdd(QMul(A[i][1], B[1][j]), QMul(A[i][2], B[2][j])), QMul(A[i][3], B[3][j]))

MatMul(A, B) == [i \in 1..3 |-> [j \in 1..3 |-> MatEntry(A, B, i, j)]]

Det3(A) ==
  QAdd(QSub(QMul(A[1][1], QSub(QMul(A[2][2], A[3][3]), QMul(A[2][3], A[3][2]))),
            QMul(A[1][2], QSub(QMul(A[2][1], A[3][3]), QMul(A[2][3], A[3][1])))),
       QMul(A[1][3], QSub(QMul(A[2][1], A[3][2]), QMul(A[2][2], A[3][1]))))

\* Matrix4.invert(): adjugate over determinant; the zero matrix if det = 0.
Others(i) == IF i = 1 THEN <<2, 3>> ELSE IF i = 2 THEN <<1, 3>> ELSE <<1, 2>>

Minor(A, i, j) ==
  The({ QSub(QMul(A[r[1]][c[1]], A[r[2]][c[2]]), QMul(A[r[1]][c[2]], A[r[2]][c[1]])) :
          r \in {Others(i)}, c \in {Others(j)} })

Cofactor(A, i, j) == QMul(I2Q(IF (i + j) % 2 = 0 THEN 1 ELSE -1), Minor(A, i, j))

Invert(A) ==
  The({ IF d = Zero
          THEN << <<Zero, Zero, Zero>>, <<Zero, Zero, Zero>>, <<Zero, Zero, Zero>> >>
          ELSE [j \in 1..3 |-> [i \in 1..3 |-> QDiv(Cofactor(A, i, j), d)]] :
          d \in {Det3(A)} })

\* Math.sin / Math.cos of an angle given in degrees, on the multiples of 90.
Mod360(deg) == ((deg % 360) + 360) % 360
SinDeg(deg) ==
  LET a == Mod360(deg)
  IN  I2Q(IF a = 90 THEN 1 ELSE IF a = 270 THEN -1 ELSE 0)
CosDeg(deg) ==
  LET a == Mod360(deg)
  IN  I2Q(IF a = 0 THEN 1 ELSE IF a = 180 THEN -1 ELSE 0)

\* Matrix4.makeRotationAxis(axis, angle), angle in degrees.
makeRotationAxis(axis, deg) ==
  The({ The({
    << << QAdd(QMul(tx, x), c), QSub(QMul(tx, y), QMul(s, z)), QAdd(QMul(tx, z), QMul(s, y)) >>,
       << QAdd(QMul(tx, y), QMul(s, z)), QAdd(QMul(ty, y), c), QSub(QMul(ty, z), QMul(s, x)) >>,
       << QSub(QMul(tx, z), QMul(s, y)), QAdd(QMul(ty, z), QMul(s, x)), QAdd(QMul(QMul(t, z), z), c) >> >> :
      tx \in {QMul(t, x)}, ty \in {QMul(t, y)} }) :
    c \in {CosDeg(deg)}, s \in {SinDeg(deg)}, t \in {QSub(One, CosDeg(deg))},
    x \in {axis[1]}, y \in {axis[2]}, z \in {axis[3]} })

\* A quaternion is kept as the primitive integer vector <<x, y, z, w>> that
\* is a positive multiple of the unit quaternion the program stores: the
\* map between the two is one-to-one, and it needs no square root.
Gcd4(a, b, c, d) == Gcd(Gcd(Abs(a), Abs(b)), Gcd(Abs(c), Abs(d)))
Lcm(a, b) == (a * b) \div Gcd(a, b)
Primitive(x, y, z, w) ==
  The({ The({ The({ IF g = 0 THEN <<0, 0, 0, 0>>
                    ELSE <<xi \div g, yi \div g, zi \div g, wi \div g>> :
                      g \in {Gcd4(xi, yi, zi, wi)} }) :
                xi \in {x[1] * (l \div x[2])}, yi \in {y[1] * (l \div y[2])},
                zi \in {z[1] * (l \div z[2])}, wi \in {w[1] * (l \div w[2])} }) :
          l \in {Lcm(Lcm(x[2], y[2]), Lcm(z[2], w[2]))} })

IdentityQuaternion == <<0, 0, 0, 1>>

\* Quaternion.setFromRotationMatrix(m): the four branches of the library
\* routine, each multiplied through by its positive factor 4*w, 4*x, ...
setFromRotationMatrix(m) ==
  LET m11 == m[1][1]
      m22 == m[2][2]
      m33 == m[3][3]
  IN  \* trace is bound below
      IF QLt(Zero, QAdd(QAdd(m11, m22), m33))
        THEN Primitive(QSub(m[3][2], m[2][3]), QSub(m[1][3], m[3][1]),
                       QSub(m[2][1], m[1][2]), QAdd(QAdd(QAdd(m11, m22), m33), One))
      ELSE IF QLt(m22, m11) /\ QLt(m33, m11)
        THEN Primitive(QSub(QAdd(One, m11), QAdd(m22, m33)), QAdd(m[1][2], m[2][1]),
                       QAdd(m[1][3], m[3][1]), QSub(m[3][2], m[2][3]))
      ELSE IF QLt(m33, m22)
        THEN Primitive(QAdd(m[1][2], m[2][1]), QSub(QAdd(One, m22), QAdd(m11, m33)),
                       QAdd(m[2][3], m[3][2]), QSub(m[1][3], m[3][1]))
      ELSE Primitive(QAdd(m[1][3], m[3][1]), QAdd(m[2][3], m[3][2]),
                     QSub(QAdd(One, m33), QAdd(m11, m22)), QSub(m[2][1], m[1][2]))

\* Quaternion.multiplyQuaternions(a, b): the Hamilton product a * b
multiplyQuaternions(a, b) ==
  Primitive(I2Q(a[1] * b[4] + a[4] * b[1] + a[2] * b[3] - a[3] * b[2]),
            I2Q(a[2] * b[4] + a[4] * b[2] + a[3] * b[1] - a[1] * b[3]),
            I2Q(a[3] * b[4] + a[4] * b[3] + a[1] * b[2] - a[2] * b[1]),
            I2Q(a[4] * b[4] - a[1] * b[1] - a[2] * b[2] - a[3] * b[3]))

\* Vector3.applyQuaternion(q): v + w*t + qv x t with t = 2 (qv x v), for the
\* unit quaternion q / |q|.
applyQuaternion(v, q) ==
  The({ The({ VAdd(v, VScale(VAdd(VScale(t, w), Cross(qv, t)), QDiv(One, n2))) :
                t \in {VScale(Cross(qv, v), I2Q(2))} }) :
          n2 \in {I2Q(q[1] * q[1] + q[2] * q[2] + q[3] * q[3] + q[4] * q[4])},
          qv \in {Vec(q[1], q[2], q[3])}, w \in {I2Q(q[4])} })

\* ------------------------------------------------------------------------
\* Bounds of the model
\* ------------------------------------------------------------------------
\* input events (camera move, setRotation, setDisplayNDC) handled between
\* two animation frames: at most MaxPending
MaxPending == 1
\* cap on the number of allocated geometry buffers (stops a leaking variant
\* from growing without bound; the program itself never reaches it)
MaxGeometries == 12

\* ------------------------------------------------------------------------
\* geoUtils.js
\* ------------------------------------------------------------------------
latLonToVector3(lat, lon, radius) ==
  LET phi == 90 - lat
      theta == lon + 180
  IN  << QMul(QNeg(radius), QMul(SinDeg(phi), CosDeg(theta))),
         QMul(radius, CosDeg(phi)),
         QMul(radius, QMul(SinDeg(phi), SinDeg(theta))) >>

\* coordinates are <<lon, lat>> pairs
coordsToVectors(coordinates, radius) ==
  [k \in 1..Len(coordinates) |-> latLonToVector3(coordinates[k][2], coordinates[k][1], radius)]

\* ------------------------------------------------------------------------
\* Input features (GeoJSON).  Rings are sequences of <<lon, lat>> in degrees.
\* ------------------------------------------------------------------------
RingEquator == << <<0, 0>>, <<90, 90>>, <<90, -90>>, <<0, 0>> >>
RingPole == << <<0, 90>>, <<-90, 0>>, <<90, 0>>, <<0, 90>> >>
\* closed ring of two distinct points: fewer than 3 points once opened
RingTwoPoints == << <<0, 90>>, <<0, -90>>, <<0, 90>> >>
\* open ring on one parallel: the triangulator finds no triangle
RingCollinear == << <<-90, 0>>, <<90, 0>>, <<-90, 0>>, <<90, 0>> >>
\* OctantNear is the octant x, y, z >= 0 of the sphere and OctantFar the
\* opposite octant
OctantNear == << <<0, 0>>, <<0, 90>>, <<-90, 0>>, <<0, 0>> >>
OctantFar == << <<180, 0>>, <<0, -90>>, <<90, 0>>, <<180, 0>> >>
\* two points, opposite the second and the third point of OctantNear
RingOpposite == << <<0, -90>>, <<90, 0>> >>
\* a ring through two opposite points of the equator
RingAntipodal == << <<90, 0>>, <<180, 0>>, <<0, 90>>, <<0, 0>>, <<90, 0>> >>

InputRings ==
  { OctantNear, OctantFar, RingEquator, RingPole, RingTwoPoints, RingCollinear, RingAntipodal }

\* a feature whose geometry member is null
NoGeometry == [type |-> NULL, coordinates |-> NULL]

Features ==
  [ poly    |-> [id |-> 1, geometry |-> [type |-> "Polygon", coordinates |-> <<RingEquator>>]],
    multi   |-> [id |-> 2, geometry |-> [type |-> "MultiPolygon",
                   coordinates |-> << <<RingPole>>, <<RingTwoPoints>>, <<RingCollinear>> >>]],
    nogeom  |-> [id |-> 3, geometry |-> NoGeometry],
    \* the octant x, y, z >= 0 and a ring of two points opposite its second
    \* and third corner: one flat triangle that faces the camera
    octant  |-> [id |-> 4, geometry |-> [type |-> "MultiPolygon",
                   coordinates |-> << <<OctantNear>>, <<RingOpposite>> >>]] ]

\* the features offered to show() as such, and those offered where the
\* pointer drags an overlay
FeatureNames == {"poly", "multi", "nogeom"}
DragFeatures == {"octant", "nogeom"}

\* ------------------------------------------------------------------------
\* Camera and screen points (the collaborators' state)
\* ------------------------------------------------------------------------
\* Camera positions on the orbit sphere of radius 8 (minDistance 7,
\* maxDistance 30); OrbitControls keeps the camera looking at the origin
\* with world +y up.
CameraPositions == << Vec(0, 0, 8), Vec(8, 0, 0), Vec(0, 0, -8), Vec(-8, 0, 0) >>
Cameras == {CameraPositions[1], CameraPositions[2]}

\* Screen points, as <<x, y>> on the image plane at unit distance from the
\* camera (NDC scaled by tan(fov/2) and the aspect ratio).
ScreenPointTable == << <<Q(3, 4), Zero>>, <<Q(20, 21), Zero>>, <<Zero, Zero>>, <<Q(-3, 4), Zero>> >>
\* the screen points offered to setDisplayNDC: one right of centre on the
\* globe, one further right whose ray misses the globe
ScreenPoints == {ScreenPointTable[1], ScreenPointTable[2]}

\* compass angles offered to setRotation, in degrees
TwistAngles == {0, 90}

\* Raycaster.setFromCamera(ndc, camera) for a perspective camera: the ray
\* from the camera position through the screen point.
setFromCamera(ndc, camPos) ==
  The({ The({ The({
    [ origin |-> camPos,
      direction |-> Normalize(VAdd(VAdd(VScale(right, ndc[1]), VScale(up, ndc[2])),
                                   VScale(back, I2Q(-1)))) ] :
      up \in {Cross(back, right)} }) :
      right \in {Normalize(Cross(Vec(0, 1, 0), back))} }) :
      back \in {Normalize(camPos)} })

\* ------------------------------------------------------------------------
\* CountryOverlay (multi-slot)
\* ------------------------------------------------------------------------
NUM_SLOTS == 3
GLOBE_RADIUS == 5
SlotIndices == 0..(NUM_SLOTS - 1)
OVERLAY_COLORS == <<"red", "blue", "green">>

\* constructor: the slot table
InitialSlot(i) ==
  [ active |-> FALSE,
    country |-> NULL,
    originalCentroidDir |-> NONE,
    displayNDC |-> NONE,
    children |-> <<>>,
    quaternion |-> IdentityQuaternion,
    color |-> OVERLAY_COLORS[i + 1] ]

\* the value undefined where a ring is expected
NoRing == << <<UNDEFINED, UNDEFINED>> >>

\* the rings a geometry is drawn from: coordinates[0] of a polygon, which
\* is undefined if the polygon has no ring
RingsOf(geometry) ==
  IF geometry.type = "Polygon"
    THEN << IF Len(geometry.coordinates) = 0 THEN NoRing ELSE geometry.coordinates[1] >>
  ELSE IF geometry.type = "MultiPolygon"
    THEN [k \in 1..Len(geometry.coordinates) |->
            IF Len(geometry.coordinates[k]) = 0 THEN NoRing
            ELSE geometry.coordinates[k][1]]
  ELSE <<>>

RECURSIVE SumSeq(_)
SumSeq(vs) == IF vs = <<>> THEN Vec(0, 0, 0) ELSE VAdd(Head(vs), SumSeq(Tail(vs)))

RECURSIVE Flatten(_)
Flatten(ss) == IF ss = <<>> THEN <<>> ELSE Head(ss) \o Flatten(Tail(ss))

computeCentroidDirection(geometry) ==
  The({ The({ IF Len(points) > 0
                THEN Normalize(VScale(SumSeq(points), QDiv(One, I2Q(Len(points)))))
                ELSE Vec(0, 0, 1) :
                points \in {Flatten([k \in 1..Len(rings) |-> coordsToVectors(rings[k], One)])} }) :
          rings \in {RingsOf(geometry)} })

localFrame(dir) ==
  The({ The({ The({
    [right |-> Normalize(Cross(up, forward)), up |-> up, forward |-> forward] :
      up \in {Normalize(IF QLt(LengthSq(up0), Q(1, 100000000))
                          THEN AddScaledVector(Vec(0, 0, 1), forward,
                                               QNeg(Dot(Vec(0, 0, 1), forward)))
                          ELSE up0)} }) :
      up0 \in {AddScaledVector(worldUp, forward, QNeg(Dot(worldUp, forward)))} }) :
      worldUp \in {Vec(0, 1, 0)}, forward \in {dir} })

\* variant: the far intersection is taken
ndcToGlobeDirFar(ndc, camPos) ==
  The({ The({ The({
    IF QLt(disc, Zero) THEN NONE
    ELSE The({ IF QLt(t, Zero) THEN NONE
               ELSE Normalize(AddScaledVector(ray.origin, ray.direction, t)) :
                 t \in {QAdd(QNeg(b), QSqrt(disc))} }) :
      disc \in {QSub(QMul(b, b), c)} }) :
      b \in {Dot(ray.origin, ray.direction)},
      c \in {QSub(Dot(ray.origin, ray.origin), I2Q(GLOBE_RADIUS * GLOBE_RADIUS))} }) :
      ray \in {setFromCamera(ndc, camPos)} })

\* NONE when the ray misses the globe sphere
ndcToGlobeDir(ndc, camPos) ==
  The({ The({ The({
    IF QLt(disc, Zero) THEN NONE
    ELSE The({ IF QLt(t, Zero) THEN NONE
               ELSE Normalize(AddScaledVector(ray.origin, ray.direction, t)) :
                 t \in {QSub(QNeg(b), QSqrt(disc))} }) :
      disc \in {QSub(QMul(b, b), c)} }) :
      b \in {Dot(ray.origin, ray.direction)},
      c \in {QSub(Dot(ray.origin, ray.origin), I2Q(GLOBE_RADIUS * GLOBE_RADIUS))} }) :
      ray \in {setFromCamera(ndc, camPos)} })

\* the direction update() turns a slot towards
targetDirOf(displayNDC, camPos) ==
  The({ IF displayNDC # NONE
          THEN The({ IF hit # NONE THEN hit ELSE cameraDir :
                       hit \in {ndcToGlobeDir(displayNDC, camPos)} })
          ELSE cameraDir :
          cameraDir \in {Normalize(camPos)} })

\* the rotation the forEach body of update() computes for one slot
slotRotation(centroidDir, displayNDC, camPos, twist) ==
  The({ The({ The({ The({
    setFromRotationMatrix(IF twist # 0
                            THEN MatMul(makeRotationAxis(cameraDir, -twist), rotMat)
                            ELSE rotMat) :
      rotMat \in {MatMul(tgtMat, Invert(srcMat))} }) :
      srcMat \in {makeBasis(srcFrame.right, srcFrame.up, srcFrame.forward)},
      tgtMat \in {makeBasis(tgtFrame.right, tgtFrame.up, tgtFrame.forward)} }) :
      srcFrame \in {localFrame(centroidDir)}, tgtFrame \in {localFrame(targetDir)} }) :
      cameraDir \in {Normalize(camPos)}, targetDir \in {targetDirOf(displayNDC, camPos)} })

\* computeCentroidDirection and slotRotation, tabulated once over the
\* model's inputs
DrawnGeometries ==
  {Features[f].geometry : f \in {g \in DOMAIN Features : Features[g].geometry.coordinates # NULL}}

CentroidTable == {<<g, computeCentroidDirection(g)>> : g \in DrawnGeometries}

centroidDirectionOf(geometry) ==
  IF geometry \in DrawnGeometries
    THEN (CHOOSE e \in CentroidTable : e[1] = geometry)[2]
    ELSE computeCentroidDirection(geometry)

CentroidDirs == {e[2] : e \in CentroidTable}

RotationKeys == CentroidDirs \X (ScreenPoints \cup {NONE}) \X Cameras \X TwistAngles

RotationTable ==
  {<<k, slotRotation(k[1], k[2], k[3], k[4])>> : k \in RotationKeys}

rotationOf(centroidDir, displayNDC, camPos, twist) ==
  LET key == <<centroidDir, displayNDC, camPos, twist>>
  IN  IF key \in RotationKeys
        THEN (CHOOSE e \in RotationTable : e[1] = key)[2]
        ELSE slotRotation(centroidDir, displayNDC, camPos, twist)

\* variant: the frame's rotation is integrated into the previous one
updateSlotAccumulating(slot, camPos, twist) ==
  IF ~slot.active \/ slot.originalCentroidDir = NONE THEN slot
  ELSE [slot EXCEPT !.quaternion =
          multiplyQuaternions(
            rotationOf(slot.originalCentroidDir, slot.displayNDC, camPos, twist),
            slot.quaternion)]

\* variant: the frame leaves the slot's stored direction at the target
updateSlotMovingCentroid(slot, camPos, twist) ==
  IF ~slot.active \/ slot.originalCentroidDir = NONE THEN slot
  ELSE [slot EXCEPT !.quaternion =
          rotationOf(slot.originalCentroidDir, slot.displayNDC, camPos, twist),
          !.originalCentroidDir = targetDirOf(slot.displayNDC, camPos)]

\* the body of the forEach in update(), for one slot
updateSlot(slot, camPos, twist) ==
  IF ~slot.active \/ slot.originalCentroidDir = NONE THEN slot
  ELSE [slot EXCEPT !.quaternion =
          rotationOf(slot.originalCentroidDir, slot.displayNDC, camPos, twist)]

update(ss, camPos, twist) ==
  [i \in SlotIndices |-> updateSlot(ss[i], camPos, twist)]

\* THREE.ShapeUtils.triangulateShape(contour, []): ear clipping of a simple
\* polygon given by points <<x, y>>; n - 2 triangles, none if the contour
\* has no area.  Triangles are index triples into the contour.
RECURSIVE Area2(_, _)
Area2(pts, k) ==
  IF k > Len(pts) THEN Zero
  ELSE The({ QAdd(QSub(QMul(p[1], q[2]), QMul(q[1], p[2])), Area2(pts, k + 1)) :
               p \in {pts[k]}, q \in {pts[IF k = Len(pts) THEN 1 ELSE k + 1]} })

\* Earcut's earcutLinked on a contour all of whose corners are ears (a convex
\* contour): nodes is the linked list in order, ear the position in it of
\* the node tried next.  The ear is cut as (prev, ear, next) and the node
\* after next is tried.
RECURSIVE earcutLinked(_, _, _)
earcutLinked(nodes, ear, triangles) ==
  IF Len(nodes) < 3 THEN triangles
  ELSE The({ earcutLinked(SubSeq(nodes, 1, ear - 1) \o SubSeq(nodes, ear + 1, n),
                          IF nextAt = n - 1 THEN 1 ELSE nextAt + 1,
                          Append(triangles, <<prev, nodes[ear], next>>)) :
               n \in {Len(nodes)},
               prev \in {nodes[IF ear = 1 THEN Len(nodes) ELSE ear - 1]},
               next \in {nodes[IF ear = Len(nodes) THEN 1 ELSE ear + 1]},
               nextAt \in {IF ear = Len(nodes) THEN 1 ELSE ear} })

\* The list is linked in contour order if the contour is counter-clockwise
\* and in reverse order if not, and clipping starts at the node linked last.
triangulateShape(contour) ==
  The({ IF n < 3 \/ area = Zero THEN <<>>
        ELSE earcutLinked(IF QLt(Zero, area) THEN [k \in 1..n |-> k]
                          ELSE [k \in 1..n |-> n + 1 - k],
                          n, <<>>) :
          n \in {Len(contour)}, area \in {Area2(contour, 1)} })

\* the ring without its closing point, if its last point repeats its first
\* (isClosed ? coordinates.slice(0, -1) : coordinates)
openCoordsOf(coordinates) ==
  LET last == Len(coordinates)
      isClosed == coordinates[1][1] = coordinates[last][1] /\
                  coordinates[1][2] = coordinates[last][2]
  IN  IF isClosed THEN SubSeq(coordinates, 1, last - 1) ELSE coordinates

\* The children _createPolygonOverlay adds to the slot's group for one ring:
\* a fill Mesh (if the ring triangulates) and then the outline Line.  Each
\* child owns one BufferGeometry, named here by what it was built from.
createPolygonOverlay(coordinates, slotIndex) ==
  IF Len(coordinates) < 3 THEN <<>>
  ELSE The({
    IF Len(openCoords) < 3 THEN <<>>
    ELSE The({
      LET fill == IF Len(triangles) > 0
                    THEN << [ isMesh |-> TRUE,
                              userData |-> [slotIndex |-> slotIndex],
                              vertexCount |-> 3 * Len(triangles),
                              geometry |-> <<"fill", slotIndex, coordinates>> ] >>
                    ELSE <<>>
          line == [ isMesh |-> FALSE,
                    userData |-> [slotIndex |-> UNDEFINED],
                    vertexCount |-> Len(coordinates),
                    geometry |-> <<"line", slotIndex, coordinates>> ]
      IN  fill \o <<line>> :
        triangles \in {triangulateShape([k \in 1..Len(openCoords) |->
                          <<I2Q(openCoords[k][1]), I2Q(openCoords[k][2])>>])} }) :
      openCoords \in {openCoordsOf(coordinates)} })

\* the bag of geometries owned by a sequence of children
RECURSIVE GeometriesOf(_)
GeometriesOf(children) ==
  IF children = <<>> THEN EmptyBag
  ELSE SetToBag({Head(children).geometry}) (+) GeometriesOf(Tail(children))

\* variant: the group's rotation is not reset
clearKeepingRotation(e, slotIndex) ==
  LET slot == e.slots[slotIndex]
  IN  [ slots |-> [e.slots EXCEPT ![slotIndex] =
                     [slot EXCEPT !.children = <<>>,
                                  !.active = FALSE,
                                  !.country = NULL,
                                  !.originalCentroidDir = NONE,
                                  !.displayNDC = NONE]],
        geometries |-> e.geometries (-) GeometriesOf(slot.children) ]

\* variant: the children are removed from the group but not disposed
clearWithoutDispose(e, slotIndex) ==
  LET slot == e.slots[slotIndex]
  IN  [ slots |-> [e.slots EXCEPT ![slotIndex] =
                     [slot EXCEPT !.children = <<>>,
                                  !.active = FALSE,
                                  !.country = NULL,
                                  !.originalCentroidDir = NONE,
                                  !.displayNDC = NONE,
                                  !.quaternion = IdentityQuaternion]],
        geometries |-> e.geometries ]

\* variant: the slot keeps its display position
clearKeepingPosition(e, slotIndex) ==
  LET slot == e.slots[slotIndex]
  IN  [ slots |-> [e.slots EXCEPT ![slotIndex] =
                     [slot EXCEPT !.children = <<>>,
                                  !.active = FALSE,
                                  !.country = NULL,
                                  !.originalCentroidDir = NONE,
                                  !.quaternion = IdentityQuaternion]],
        geometries |-> e.geometries (-) GeometriesOf(slot.children) ]

\* clear(slotIndex) on the engine state e = [slots, geometries]: every child
\* of the group is disposed and removed, then the slot is reset.
clear(e, slotIndex) ==
  LET slot == e.slots[slotIndex]
  IN  [ slots |-> [e.slots EXCEPT ![slotIndex] =
                     [slot EXCEPT !.children = <<>>,
                                  !.active = FALSE,
                                  !.country = NULL,
                                  !.originalCentroidDir = NONE,
                                  !.displayNDC = NONE,
                                  !.quaternion = IdentityQuaternion]],
        geometries |-> e.geometries (-) GeometriesOf(slot.children) ]

RECURSIVE clearFrom(_, _)
clearFrom(e, i) == IF i >= NUM_SLOTS THEN e ELSE clearFrom(clear(e, i), i + 1)

clearAll(e) == clearFrom(e, 0)

\* variant: the slot is not cleared before the new children are added
showAppending(e, country, slotIndex, camPos, twist) ==
  LET geometry == Features[country].geometry
      s1 == [e.slots[slotIndex] EXCEPT !.country = country, !.active = TRUE]
  IN  IF geometry = NoGeometry \/ geometry.coordinates = NULL
        THEN [e EXCEPT !.slots[slotIndex] = s1]
        ELSE
          LET rings == RingsOf(geometry)
              built == Flatten([k \in 1..Len(rings) |-> createPolygonOverlay(rings[k], slotIndex)])
              s2 == [s1 EXCEPT !.originalCentroidDir = centroidDirectionOf(geometry),
                               !.displayNDC = NONE,
                               !.children = s1.children \o built]
          IN  Strict(s2,
                [ slots |-> update([e.slots EXCEPT ![slotIndex] = s2], camPos, twist),
                  geometries |-> e.geometries (+) GeometriesOf(built) ])

\* variant: show leaves the first orientation to the next frame
showWithoutUpdate(e, country, slotIndex, camPos, twist) ==
  LET e1 == clear(e, slotIndex)
      geometry == Features[country].geometry
      s1 == [e1.slots[slotIndex] EXCEPT !.country = country, !.active = TRUE]
  IN  IF geometry = NoGeometry \/ geometry.coordinates = NULL
        THEN [e1 EXCEPT !.slots[slotIndex] = s1]
        ELSE
          LET rings == RingsOf(geometry)
              built == Flatten([k \in 1..Len(rings) |-> createPolygonOverlay(rings[k], slotIndex)])
              s2 == [s1 EXCEPT !.originalCentroidDir = centroidDirectionOf(geometry),
                               !.displayNDC = NONE,
                               !.children = built]
          IN  Strict(s2,
                [ slots |-> [e1.slots EXCEPT ![slotIndex] = s2],
                  geometries |-> e1.geometries (+) GeometriesOf(built) ])

\* show(country, slotIndex); country is a name in Features
show(e, country, slotIndex, camPos, twist) ==
  LET e1 == clear(e, slotIndex)
      geometry == Features[country].geometry
      s1 == [e1.slots[slotIndex] EXCEPT !.country = country, !.active = TRUE]
  IN  IF geometry = NoGeometry \/ geometry.coordinates = NULL
        THEN [e1 EXCEPT !.slots[slotIndex] = s1]
        ELSE
          LET rings == RingsOf(geometry)
              built == Flatten([k \in 1..Len(rings) |-> createPolygonOverlay(rings[k], slotIndex)])
              s2 == [s1 EXCEPT !.originalCentroidDir = centroidDirectionOf(geometry),
                               !.displayNDC = NONE,
                               !.children = built]
          IN  Strict(s2,
                [ slots |-> update([e1.slots EXCEPT ![slotIndex] = s2], camPos, twist),
                  geometries |-> e1.geometries (+) GeometriesOf(built) ])

\* variant: the slot is turned back to the identity when it is moved
setDisplayNDCResetting(ss, slotIndex, ndc) ==
  [ss EXCEPT ![slotIndex].displayNDC = ndc, ![slotIndex].quaternion = IdentityQuaternion]

\* variant: one display position shared by all slots
setDisplayNDCShared(ss, slotIndex, ndc) ==
  [i \in SlotIndices |-> [ss[i] EXCEPT !.displayNDC = ndc]]

setDisplayNDC(ss, slotIndex, ndc) == [ss EXCEPT ![slotIndex].displayNDC = ndc]

getOverlayMeshes(ss) ==
  Flatten([k \in 1..NUM_SLOTS |->
     IF ss[k - 1].active
       THEN SelectSeq(ss[k - 1].children, LAMBDA child : child.isMesh)
       ELSE <<>>])

hasAnyOverlay(ss) == \E i \in SlotIndices : ss[i].active

\* ------------------------------------------------------------------------
\* CountryLoader: TopoJSON to GeoJSON
\* ------------------------------------------------------------------------
\* Arrays are sequences: the JS element a[i] is a[i + 1] here.
\* A topology is [arcs, transform, objects]; an arc is a sequence of
\* <<dx, dy>> deltas; transform is NoTransform or [scale, translate].
NoTransform == [scale |-> NONE, translate |-> NONE]

\* ~i on a JS integer
Complement(i) == -i - 1

\* Array.prototype.reverse on a copy
RECURSIVE Reverse(_)
Reverse(a) == IF a = <<>> THEN <<>> ELSE Reverse(Tail(a)) \o <<Head(a)>>

\* the arc.map(point => ...) of parseTopoJSON from element k on, with the
\* running sums x, y
RECURSIVE decodeFrom(_, _, _, _, _)
decodeFrom(arc, k, x, y, transform) ==
  IF k > Len(arc) THEN <<>>
  ELSE LET x1 == x + arc[k][1]
           y1 == y + arc[k][2]
           point == IF transform # NoTransform
                      THEN << x1 * transform.scale[1] + transform.translate[1],
                              y1 * transform.scale[2] + transform.translate[2] >>
                      ELSE <<x1, y1>>
       IN  <<point>> \o decodeFrom(arc, k + 1, x1, y1, transform)

\* const decodedArcs = arcs.map(arc => ...)
decodeArcs(arcs, transform) ==
  [a \in 1..Len(arcs) |-> decodeFrom(arcs[a], 1, 0, 0, transform)]

\* variant: the reversed arc is written back (arc.reverse() without slice())
RECURSIVE stitchFromInPlace(_, _, _, _)
stitchFromInPlace(arcIndices, k, coordinates, arcs) ==
  IF k > Len(arcIndices)
    THEN [coordinates |-> coordinates, arcs |-> arcs, threw |-> FALSE]
  ELSE LET arcIndex == arcIndices[k]
           at == IF arcIndex < 0 THEN Complement(arcIndex) ELSE arcIndex
       IN  IF at >= Len(arcs)
             THEN [coordinates |-> coordinates, arcs |-> arcs, threw |-> TRUE]
           ELSE LET arc == arcs[at + 1]
                    points == IF arcIndex < 0 THEN Reverse(arc) ELSE arc
                    start == IF Len(coordinates) > 0 THEN 1 ELSE 0
                IN  stitchFromInPlace(arcIndices, k + 1,
                                      coordinates \o SubSeq(points, start + 1, Len(points)),
                                      [arcs EXCEPT ![at + 1] = points])

stitchArcsInPlace(arcIndices, arcs) == stitchFromInPlace(arcIndices, 1, <<>>, arcs)

\* variant: every arc is taken in stored order
RECURSIVE stitchFromForward(_, _, _, _)
stitchFromForward(arcIndices, k, coordinates, arcs) ==
  IF k > Len(arcIndices)
    THEN [coordinates |-> coordinates, arcs |-> arcs, threw |-> FALSE]
  ELSE LET arcIndex == arcIndices[k]
           at == IF arcIndex < 0 THEN Complement(arcIndex) ELSE arcIndex
       IN  IF at >= Len(arcs)
             THEN [coordinates |-> coordinates, arcs |-> arcs, threw |-> TRUE]
           ELSE LET points == arcs[at + 1]
                    start == IF Len(coordinates) > 0 THEN 1 ELSE 0
                IN  stitchFromForward(arcIndices, k + 1,
                                      coordinates \o SubSeq(points, start + 1, Len(points)),
                                      arcs)

stitchArcsForward(arcIndices, arcs) == stitchFromForward(arcIndices, 1, <<>>, arcs)

\* variant: every arc is appended whole (start is always 0)
RECURSIVE stitchFromKeepingJoins(_, _, _, _)
stitchFromKeepingJoins(arcIndices, k, coordinates, arcs) ==
  IF k > Len(arcIndices)
    THEN [coordinates |-> coordinates, arcs |-> arcs, threw |-> FALSE]
  ELSE LET arcIndex == arcIndices[k]
           at == IF arcIndex < 0 THEN Complement(arcIndex) ELSE arcIndex
       IN  IF at >= Len(arcs)
             THEN [coordinates |-> coordinates, arcs |-> arcs, threw |-> TRUE]
           ELSE LET arc == arcs[at + 1]
                    points == IF arcIndex < 0 THEN Reverse(arc) ELSE arc
                IN  stitchFromKeepingJoins(arcIndices, k + 1, coordinates \o points, arcs)

stitchArcsKeepingJoins(arcIndices, arcs) == stitchFromKeepingJoins(arcIndices, 1, <<>>, arcs)

\* the arcIndices.forEach of stitchArcs from element k on.  The arc table
\* is passed by reference, so the result carries it along with the ring;
\* threw: arcs[...] was undefined and arc.slice() raised a TypeError.
RECURSIVE stitchFrom(_, _, _, _)
stitchFrom(arcIndices, k, coordinates, arcs) ==
  IF k > Len(arcIndices)
    THEN [coordinates |-> coordinates, arcs |-> arcs, threw |-> FALSE]
  ELSE LET arcIndex == arcIndices[k]
           at == IF arcIndex < 0 THEN Complement(arcIndex) ELSE arcIndex
       IN  IF at >= Len(arcs)
             THEN [coordinates |-> coordinates, arcs |-> arcs, threw |-> TRUE]
           ELSE LET arc == arcs[at + 1]
                    points == IF arcIndex < 0 THEN Reverse(arc) ELSE arc
                    start == IF Len(coordinates) > 0 THEN 1 ELSE 0
                IN  stitchFrom(arcIndices, k + 1,
                               coordinates \o SubSeq(points, start + 1, Len(points)),
                               arcs)

stitchArcs(arcIndices, arcs) == stitchFrom(arcIndices, 1, <<>>, arcs)

\* rings.map(arc => this.stitchArcs(arc, arcs)) from element k on
RECURSIVE stitchRings(_, _, _, _)
stitchRings(rings, k, done, arcs) ==
  IF k > Len(rings) THEN [coordinates |-> done, arcs |-> arcs, threw |-> FALSE]
  ELSE LET r == stitchArcs(rings[k], arcs)
       IN  IF r.threw THEN [coordinates |-> done, arcs |-> r.arcs, threw |-> TRUE]
           ELSE stitchRings(rings, k + 1, Append(done, r.coordinates), r.arcs)

\* geom.arcs.map(polygon => polygon.map(...)) from element k on
RECURSIVE stitchPolygons(_, _, _, _)
stitchPolygons(polygons, k, done, arcs) ==
  IF k > Len(polygons) THEN [coordinates |-> done, arcs |-> arcs, threw |-> FALSE]
  ELSE LET r == stitchRings(polygons[k], 1, <<>>, arcs)
       IN  IF r.threw THEN [coordinates |-> done, arcs |-> r.arcs, threw |-> TRUE]
           ELSE stitchPolygons(polygons, k + 1, Append(done, r.coordinates), r.arcs)

\* topoGeometryToGeoJSON(geom, arcs): [geometry, arcs, threw]
topoGeometryToGeoJSON(geom, arcs) ==
  IF geom.type = "Polygon"
    THEN LET r == stitchRings(geom.arcs, 1, <<>>, arcs)
         IN  [ geometry |-> [type |-> "Polygon", coordinates |-> r.coordinates],
               arcs |-> r.arcs, threw |-> r.threw ]
  ELSE IF geom.type = "MultiPolygon"
    THEN LET r == stitchPolygons(geom.arcs, 1, <<>>, arcs)
         IN  [ geometry |-> [type |-> "MultiPolygon", coordinates |-> r.coordinates],
               arcs |-> r.arcs, threw |-> r.threw ]
  ELSE [geometry |-> geom, arcs |-> arcs, threw |-> FALSE]

\* Input topologies.  ArcB decodes to the points of ArcA in reverse order;
\* ArcC leads from the end of ArcA back to its start.
ArcA == << <<1, 2>>, <<3, 0>>, <<-1, 4>> >>
ArcB == << <<3, 6>>, <<1, -4>>, <<-3, 0>> >>
ArcC == << <<3, 6>>, <<-2, -4>> >>
TopoArcs == <<ArcA, ArcB, ArcC>>

Transforms == {NoTransform, [scale |-> <<2, 3>>, translate |-> <<-5, 7>>]}

\* geometries of objects.countries: arcs holds rings of arc indices (Polygon)
\* or polygons of rings (MultiPolygon)
TopoGeometryPool ==
  { [type |-> "Polygon", id |-> "004", properties |-> [name |-> "Forward"],
     arcs |-> << <<0, 2>> >>],
    [type |-> "Polygon", id |-> "008", properties |-> [name |-> "Reversed"],
     arcs |-> << <<-2>> >>],
    [type |-> "Polygon", id |-> "012", properties |-> [name |-> "ReversedA"],
     arcs |-> << <<-1>> >>],
    [type |-> "MultiPolygon", id |-> "016", properties |-> [name |-> "Both"],
     arcs |-> << << <<0, 2>> >>, << <<-3, -1>> >> >>],
    [type |-> "Point", id |-> "020", properties |-> [name |-> "Point"],
     arcs |-> <<>>],
    [type |-> "Polygon", id |-> "024", properties |-> [name |-> "Dangling"],
     arcs |-> << <<1>>, <<3>> >>],
    [type |-> "Polygon", id |-> "028", properties |-> [name |-> "Empty"],
     arcs |-> << <<>>, <<2>> >>] }

\* a topology lists at most MaxTopoGeometries geometries
MaxTopoGeometries == 2

RECURSIVE SeqsUpTo(_, _)
SeqsUpTo(S, n) ==
  IF n = 0 THEN {<<>>}
  ELSE LET shorter == SeqsUpTo(S, n - 1)
       IN  shorter \cup {Append(q, x) : q \in shorter, x \in S}

Topologies ==
  { [arcs |-> TopoArcs, transform |-> t, objects |-> [countries |-> [geometries |-> gs]]] :
      t \in Transforms, gs \in SeqsUpTo(TopoGeometryPool, MaxTopoGeometries) }

NoTopology ==
  [arcs |-> <<>>, transform |-> NoTransform, objects |-> [countries |-> [geometries |-> <<>>]]]

\* ------------------------------------------------------------------------
\* Globe: what renderCountries / renderSubdivisions build for the raycaster
\* ------------------------------------------------------------------------
FILL_RADIUS == Q(501, 100)
BORDER_RADIUS == Q(5011, 1000)
HIT_RADIUS == Q(5015, 1000)

NoUserData == [type |-> NULL, name |-> NULL, countryName |-> NULL, countryId |-> NULL]

\* createFilledPolygon(coordinates, radius, material): no mesh (null) or one.
\* The tangent-plane projection is taken of the points scaled to the unit
\* sphere and with the centroid, right and forward left un-normalised: the
\* plane coordinates change by positive factors only, which changes neither
\* the triangles found nor whether any is found.
createFilledPolygon(coordinates, radius) ==
  IF Len(coordinates) < 3 THEN <<>>
  ELSE The({
    IF Len(openCoords) < 3 THEN <<>>
    ELSE The({ The({ The({ The({ The({
      IF Len(triangles) = 0 THEN <<>>
      ELSE << [ isLine |-> FALSE,
                radius |-> radius,
                vertices |-> points3D,
                triangles |-> [k \in 1..Len(triangles) |->
                                 << points3D[triangles[k][1]],
                                    points3D[triangles[k][2]],
                                    points3D[triangles[k][3]] >>],
                userData |-> NoUserData ] >> :
        triangles \in {triangulateShape([k \in 1..Len(unit3D) |->
                          <<Dot(unit3D[k], right), Dot(unit3D[k], forward)>>])} }) :
        forward \in {Cross(right, centroid)} }) :
        \* refUp: Math.abs(centroid.y) < 0.99 for the normalised centroid
        right \in {Cross(centroid,
                         IF QLt(QMul(I2Q(10000), QMul(centroid[2], centroid[2])),
                                QMul(I2Q(9801), LengthSq(centroid)))
                           THEN Vec(0, 1, 0) ELSE Vec(1, 0, 0))} }) :
        centroid \in {SumSeq(unit3D)} }) :
        points3D \in {[k \in 1..Len(openCoords) |->
                        latLonToVector3(openCoords[k][2], openCoords[k][1], radius)]},
        unit3D \in {[k \in 1..Len(openCoords) |->
                      latLonToVector3(openCoords[k][2], openCoords[k][1], One)]} }) :
      openCoords \in {openCoordsOf(coordinates)} })

\* createFilledPolygon on the input rings, computed once
FilledPolygonTable ==
  { <<ring, radius, createFilledPolygon(ring, radius)>> :
      ring \in InputRings \cup {<<>>}, radius \in {FILL_RADIUS, HIT_RADIUS} }

filledPolygonOf(ring, radius) ==
  (CHOOSE e \in FilledPolygonTable : e[1] = ring /\ e[2] = radius)[3]

\* createFilledPolygon throws instead of returning: a TypeError on
\* coordinates.length if the ring is undefined, and a RangeError if a
\* triangle has two antipodal corners, on which subdivideTriangle recurses
\* without end (the midpoint is the zero vector, which setLength leaves
\* alone, and every triangle with that corner has an edge of length radius)
createFilledPolygonThrows(coordinates, radius) ==
  IF coordinates = NoRing THEN TRUE
  ELSE \E made \in {filledPolygonOf(coordinates, radius)} :
         /\ made # <<>>
         /\ \E k \in 1..Len(made[1].triangles) :
              \E i, j \in 1..3 :
                made[1].triangles[k][i] = VScale(made[1].triangles[k][j], I2Q(-1))

\* the rings before the first that makes createFilledPolygon throw, and
\* whether there is one
RingsBeforeThrow(rings, radius) ==
  The({ IF bad = {} THEN [rings |-> rings, threw |-> FALSE]
        ELSE [rings |-> SubSeq(rings, 1, (CHOOSE k \in bad : \A j \in bad : k <= j) - 1),
              threw |-> TRUE] :
          bad \in {{k \in 1..Len(rings) : createFilledPolygonThrows(rings[k], radius)}} })

\* String(country.id)
String(id) == id

\* mesh.userData = userData, for the meshes createFilledPolygon returned
withUserData(made, userData) ==
  [k \in 1..Len(made) |-> [made[k] EXCEPT !.userData = userData]]

\* createCountryBorders(country): [meshes, fills], meshes the array it
\* returns and fills what it pushes onto countryFillMeshes on the way
createCountryBorders(country) ==
  IF country.geometry.coordinates = NULL
    THEN [meshes |-> <<>>, fills |-> <<>>, threw |-> FALSE]
  ELSE
    LET nameKey == IF country.properties.name # NULL THEN country.properties.name
                   ELSE String(country.id)
        lineOf(ring) ==
          [ isLine |-> TRUE,
            radius |-> BORDER_RADIUS,
            vertices |-> coordsToVectors(ring, BORDER_RADIUS),
            triangles |-> <<>>,
            userData |-> [NoUserData EXCEPT !.countryId = country.id] ]
    IN  The({ The({
          [ meshes |-> Flatten([k \in 1..Len(fills) |->
                                  fills[k] \o <<lineOf(processed.rings[k])>>]),
            fills |-> Flatten(fills),
            threw |-> processed.threw ] :
            fills \in {[k \in 1..Len(processed.rings) |->
                          withUserData(filledPolygonOf(processed.rings[k], FILL_RADIUS),
                                       [NoUserData EXCEPT !.countryId = country.id,
                                                          !.countryName = nameKey])]} }) :
            processed \in {RingsBeforeThrow(RingsOf(country.geometry), FILL_RADIUS)} })

\* Map.prototype.set(key, value) on a Map kept as its entries in insertion
\* order: an existing key keeps its place and takes the new value
MapSet(entries, key, value) ==
  IF \E k \in 1..Len(entries) : entries[k].key = key
    THEN [k \in 1..Len(entries) |->
            IF entries[k].key = key THEN [key |-> key, value |-> value] ELSE entries[k]]
    ELSE Append(entries, [key |-> key, value |-> value])

\* Map.prototype.get(key): the entries holding the key (none: undefined)
MapGet(entries, key) == SelectSeq(entries, LAMBDA entry : entry.key = key)

\* renderCountries(countries) from the k-th country on, on the globe state
\* g = [countryMeshes, countryFillMeshes]; threw tells that it did not
\* return.  The fills of a country are pushed as they are made, its entry
\* of countryMeshes is set once all its rings are done.
RECURSIVE renderCountriesFrom(_, _, _)
renderCountriesFrom(g, list, k) ==
  IF k > Len(list)
    THEN [countryMeshes |-> g.countryMeshes, countryFillMeshes |-> g.countryFillMeshes,
          threw |-> FALSE]
  ELSE The({ IF built.threw
               THEN [countryMeshes |-> g.countryMeshes,
                     countryFillMeshes |-> g.countryFillMeshes \o built.fills,
                     threw |-> TRUE]
             ELSE renderCountriesFrom(
                    [ countryMeshes |-> MapSet(g.countryMeshes, list[k].id,
                                               [country |-> list[k], meshes |-> built.meshes]),
                      countryFillMeshes |-> g.countryFillMeshes \o built.fills ],
                    list, k + 1) :
               built \in {createCountryBorders(list[k])} })

renderCountries(g, list) == renderCountriesFrom(g, list, 1)

\* renderSubdivisions(features): the hit meshes one feature adds to
\* subdivisionHitMeshes (its border lines join the scene only), and whether
\* a ring of it threw: coordsToVectors on an undefined ring, or
\* createFilledPolygon
subdivisionHitMeshesOf(feature) ==
  IF feature.geometry.coordinates = NULL THEN [hitMeshes |-> <<>>, threw |-> FALSE]
  ELSE
    The({
      [ hitMeshes |->
          Flatten([k \in 1..Len(processed.rings) |->
                     withUserData(filledPolygonOf(processed.rings[k], HIT_RADIUS),
                                  [NoUserData EXCEPT
                                     !.type = "subdivision",
                                     !.name = feature.properties.name,
                                     !.countryName = feature.properties.admin])]),
        threw |-> processed.threw ] :
        processed \in {RingsBeforeThrow(RingsOf(feature.geometry), HIT_RADIUS)} })

RECURSIVE renderSubdivisionsFrom(_, _, _)
renderSubdivisionsFrom(hitMeshes, list, k) ==
  IF k > Len(list) THEN [hitMeshes |-> hitMeshes, threw |-> FALSE]
  ELSE The({ IF built.threw
               THEN [hitMeshes |-> hitMeshes \o built.hitMeshes, threw |-> TRUE]
             ELSE renderSubdivisionsFrom(hitMeshes \o built.hitMeshes, list, k + 1) :
               built \in {subdivisionHitMeshesOf(list[k])} })

renderSubdivisions(hitMeshes, list) == renderSubdivisionsFrom(hitMeshes, list, 1)

\* ------------------------------------------------------------------------
\* THREE.Raycaster against the objects of the globe
\* ------------------------------------------------------------------------
\* An object is [isLine, radius, vertices, triangles, userData].  A fill or
\* hit mesh is built by subdivideTriangle, which splits every triangle and
\* pushes the new vertices out to the radius until the facets follow the
\* sphere: the model takes it as the part of the sphere of that radius over
\* its triangles.  A THREE.Line is the polyline through its vertices.
Triple(a, b, c) == Dot(a, Cross(b, c))

QClamp(v, lo, hi) == QMin(QMax(lo, v), hi)

\* is the sphere point p over the triangle (a, b, c) of sphere points?
OverTriangle(p, tri) ==
  \E a \in {tri[1]}, b \in {tri[2]}, c \in {tri[3]}, o \in {Triple(tri[1], tri[2], tri[3])} :
    LET sameSide(x) == IF QLt(Zero, o) THEN QLe(Zero, x) ELSE QLe(x, Zero)
    IN  /\ o # Zero
        /\ sameSide(Triple(a, b, p))
        /\ sameSide(Triple(b, c, p))
        /\ sameSide(Triple(c, a, p))
        /\ QLt(Zero, Dot(p, VAdd(a, VAdd(b, c))))

\* Lengths inside the raycaster are measured in units of the border radius
\* (a ray and an object scaled alike meet at distances scaled alike), which
\* keeps the coordinates of the vertices small integers.
InUnits(v) == VScale(v, QDiv(One, BORDER_RADIUS))
FromUnits(t) == QMul(t, BORDER_RADIUS)

\* the distances at which the ray from o along d crosses the sphere of the
\* given radius about the origin, nearest first (Ray.intersectSphere, both
\* crossings)
sphereCrossings(o, d, radius) ==
  The({ The({
    IF QLt(radius2, d2) THEN <<>>
    ELSE The({ SelectSeq(<<QSub(tca, thc), QAdd(tca, thc)>>, LAMBDA t : QLe(Zero, t)) :
                 thc \in {QSqrt(QSub(radius2, d2))} }) :
      d2 \in {QSub(LengthSq(o), QMul(tca, tca))} }) :
      tca \in {QNeg(Dot(o, d))}, radius2 \in {QMul(radius, radius)} })

\* Mesh.raycast for a DoubleSide fill or hit mesh: the crossings that lie
\* over one of its triangles
raycastMesh(ray, object) ==
  The({
    LET over(t) ==
          \E k \in 1..Len(object.triangles) :
            OverTriangle(AddScaledVector(o, ray.direction, t),
                         [j \in 1..3 |-> VScale(object.triangles[k][j], QDiv(One, object.radius))])
    IN  The({ [k \in 1..Len(ts) |-> [distance |-> FromUnits(ts[k]), object |-> object]] :
                ts \in {SelectSeq(sphereCrossings(o, ray.direction,
                                                  QDiv(object.radius, BORDER_RADIUS)), over)} }) :
      o \in {InUnits(ray.origin)} })

\* Mesh.raycast for the globe sphere (FrontSide): the ray enters it once
raycastGlobe(ray) ==
  The({ IF Len(ts) = 2 THEN <<[distance |-> FromUnits(ts[1])]>> ELSE <<>> :
          ts \in {sphereCrossings(InUnits(ray.origin), ray.direction,
                                  QDiv(I2Q(GLOBE_RADIUS), BORDER_RADIUS))} })

\* Raycaster.params.Line.threshold: the library default, which the program
\* does not change
LineThreshold == One

\* Ray.distanceSqToSegment(v0, v1): [sqrDist, s0], s0 the distance along
\* the ray of its point closest to the segment.  The library measures the
\* segment parameter s1 in units of length; here it is s1 / segExtent, in
\* [-1, 1], and e = segExtent * segDir, which keeps every quantity rational:
\* a == a01 * segExtent, b1e == b1 * segExtent, det2 == det * segExtent^2.
distanceSqToSegment(o, d, v0, v1) ==
  The({ The({ The({ The({
    LET clamped == QClamp(QDiv(QNeg(b1e), ext2), I2Q(-1), One)
        \* sqrDist = -s0^2 + s1 (s1 + 2 b1) + c at the segment parameter sg
        atEnd(s0, sg) ==
          [ sqrDist |-> QAdd(QAdd(QNeg(QMul(s0, s0)),
                                  QAdd(QMul(QMul(sg, sg), ext2), QMul(QMul(I2Q(2), sg), b1e))), c),
            s0 |-> s0 ]
        s0At(sg) == QMax(Zero, QNeg(QAdd(QMul(a, sg), b0)))
        \* s0 at the end sg if the ray's closest point is ahead, and the
        \* clamped point of the segment if not
        atEndOrClamped(s0, sg) == atEnd(s0, IF QLt(Zero, s0) THEN sg ELSE clamped)
    IN  IF ext2 = Zero
          THEN \* segDir is the zero vector: a01 = b1 = 0, det = 1, extDet = 0
               IF QLe(Zero, QNeg(b0))
                 THEN [sqrDist |-> QAdd(QNeg(QMul(b0, b0)), c), s0 |-> QNeg(b0)]
                 ELSE [sqrDist |-> c, s0 |-> Zero]
        ELSE IF QLt(Zero, det2)
          THEN IF QLe(Zero, s0raw)
                 THEN IF QLe(QNeg(det2), s1raw)
                        THEN IF QLe(s1raw, det2)
                               THEN \* region 0
                                    The({ [ sqrDist |->
                                              QAdd(QAdd(QMul(s0, QAdd(QAdd(s0, QMul(a, sg)), QMul(I2Q(2), b0))),
                                                        QMul(sg, QAdd(QAdd(QMul(a, s0), QMul(sg, ext2)),
                                                                      QMul(I2Q(2), b1e)))), c),
                                            s0 |-> s0 ] :
                                            s0 \in {QDiv(s0raw, det2)}, sg \in {QDiv(s1raw, det2)} })
                               ELSE \* region 1
                                    atEnd(s0At(One), One)
                        ELSE \* region 5
                             atEnd(s0At(I2Q(-1)), I2Q(-1))
               ELSE IF QLe(s1raw, QNeg(det2))
                 THEN \* region 4
                      atEndOrClamped(s0At(I2Q(-1)), I2Q(-1))
               ELSE IF QLe(s1raw, det2)
                 THEN \* region 3
                      atEnd(Zero, clamped)
               ELSE \* region 2
                    atEndOrClamped(s0At(One), One)
        ELSE \* ray and segment are parallel
             The({ atEnd(s0At(sg), sg) : sg \in {IF QLt(Zero, a) THEN I2Q(-1) ELSE One} }) :
      s0raw \in {QSub(QMul(a, b1e), QMul(b0, ext2))}, s1raw \in {QSub(QMul(a, b0), b1e)} }) :
      b0 \in {Dot(diff, d)}, b1e \in {QNeg(Dot(diff, e))}, c \in {LengthSq(diff)},
      det2 \in {QAbs(QSub(ext2, QMul(a, a)))} }) :
      diff \in {VSub(o, segCenter)}, ext2 \in {LengthSq(e)}, a \in {QNeg(Dot(d, e))} }) :
      segCenter \in {VScale(VAdd(v0, v1), Q(1, 2))}, e \in {VScale(VSub(v1, v0), Q(1, 2))} })

\* Line.raycast: one intersection per segment the ray passes within the
\* threshold, at the distance of the ray's closest point
raycastLine(ray, object) ==
  The({ The({ The({
    [j \in 1..Len(close) |-> [distance |-> FromUnits(near[close[j]].s0), object |-> object]] :
      close \in {SelectSeq([k \in 1..Len(near) |-> k],
                           LAMBDA k : QLe(near[k].sqrDist, QMul(threshold, threshold)))} }) :
      near \in {[k \in 1..(Len(object.vertices) - 1) |->
                  distanceSqToSegment(o, ray.direction, InUnits(object.vertices[k]),
                                      InUnits(object.vertices[k + 1]))]} }) :
      o \in {InUnits(ray.origin)}, threshold \in {QDiv(LineThreshold, BORDER_RADIUS)} })

raycastObject(ray, object) ==
  IF object.isLine THEN raycastLine(ray, object) ELSE raycastMesh(ray, object)

\* Input countries and subdivisions of the globe.

GlobeCountryPool ==
  { [id |-> "004", properties |-> [name |-> "Alpha"],
     geometry |-> [type |-> "Polygon", coordinates |-> <<OctantNear>>]],
    [id |-> "008", properties |-> [name |-> NULL],
     geometry |-> [type |-> "Polygon", coordinates |-> <<OctantFar>>]],
    [id |-> "010", properties |-> [name |-> "Gamma"], geometry |-> NoGeometry] }

\* renderCountries receives at most MaxCatalog countries
MaxCatalog == 2

Catalogs == SeqsUpTo(GlobeCountryPool, MaxCatalog)

SubdivisionLists ==
  { << [properties |-> [name |-> "North", admin |-> "Alpha"],
        geometry |-> [type |-> "Polygon", coordinates |-> <<OctantNear>>]] >> }

\* Camera positions at distance 25/6 border radii (20.88) on the line
\* through (7, 0, 24), and the screen points picked: the centre, a point
\* left of it whose ray passes the globe at distance 16/15 border radii
\* (5.35) from its centre, and a point far right of it.
PickCameraTable ==
  << <<QMul(Q(7, 6), BORDER_RADIUS), Zero, QMul(I2Q(4), BORDER_RADIUS)>>,
     <<QMul(Q(-7, 6), BORDER_RADIUS), Zero, QMul(I2Q(-4), BORDER_RADIUS)>> >>
PickCameras == {PickCameraTable[1], PickCameraTable[2]}
PickPoints == { <<Zero, Zero>>, <<Q(-16, 63), Zero>>, <<Q(3, 4), Zero>> }

\* raycastObject and raycastGlobe, tabulated once over the model's rays
\* and the objects its countries and subdivisions give
PickRays == {setFromCamera(n, c) : n \in PickPoints, c \in PickCameras}

ElementsOf(seq) == {seq[k] : k \in 1..Len(seq)}

PoolObjects ==
  UNION ( {ElementsOf(createCountryBorders(c).meshes) : c \in GlobeCountryPool}
          \cup {ElementsOf(subdivisionHitMeshesOf(l[k]).hitMeshes) :
                  l \in SubdivisionLists, k \in 1..1} )

RaycastTable == {<<r, ob, raycastObject(r, ob)>> : r \in PickRays, ob \in PoolObjects}

raycastOf(ray, object) ==
  IF ray \in PickRays /\ object \in PoolObjects
    THEN (CHOOSE e \in RaycastTable : e[1] = ray /\ e[2] = object)[3]
    ELSE raycastObject(ray, object)

GlobeHitTable == {<<r, raycastGlobe(r)>> : r \in PickRays}

globeHitsOf(ray) ==
  IF ray \in PickRays THEN (CHOOSE e \in GlobeHitTable : e[1] = ray)[2]
  ELSE raycastGlobe(ray)

\* Array.prototype.sort by ascending distance (stable)
RECURSIVE insertByDistance(_, _)
insertByDistance(sorted, hit) ==
  IF sorted = <<>> THEN <<hit>>
  ELSE IF QLt(hit.distance, Head(sorted).distance) THEN <<hit>> \o sorted
  ELSE <<Head(sorted)>> \o insertByDistance(Tail(sorted), hit)

RECURSIVE sortByDistance(_)
sortByDistance(hits) ==
  IF hits = <<>> THEN <<>>
  ELSE insertByDistance(sortByDistance(SubSeq(hits, 1, Len(hits) - 1)), hits[Len(hits)])

\* Raycaster.intersectObjects(objects, false)
intersectObjects(ray, objects) ==
  sortByDistance(Flatten([k \in 1..Len(objects) |-> raycastOf(ray, objects[k])]))

\* The globe mesh: SphereGeometry(5, ...), FrontSide
GlobeState(cm, fm, hm) ==
  [countryMeshes |-> cm, countryFillMeshes |-> fm, subdivisionHitMeshes |-> hm]

NoPick == [hit |-> FALSE, label |-> NULL, countryId |-> NULL, object |-> <<>>]

\* the mousemove listener of setupRaycaster: what onHover receives
\* (hit FALSE: onHover(null))
hoverPick(g, ray) ==
  The({
    IF Len(intersects) > 0
      THEN The({
             IF Len(globeHits) > 0 /\ QLt(globeHits[1].distance, intersects[1].distance)
               THEN NoPick
               ELSE LET userData == intersects[1].object.userData
                        label == IF userData.type = "subdivision" THEN userData.name
                                 ELSE IF userData.countryName # NULL THEN userData.countryName
                                 ELSE String(userData.countryId)
                    IN  [NoPick EXCEPT !.hit = TRUE, !.label = label,
                                       !.object = <<intersects[1].object>>] :
               globeHits \in {globeHitsOf(ray)} })
      ELSE NoPick :
      intersects \in {intersectObjects(ray, g.subdivisionHitMeshes \o g.countryFillMeshes)} })

\* onCanvasClick: what onCountryClick receives (hit FALSE: it is not called)
clickPick(g, ray) ==
  The({
    IF Len(intersects) > 0
      THEN The({
             IF Len(globeHits) > 0 /\ QLt(globeHits[1].distance, intersects[1].distance)
               THEN NoPick
               ELSE LET countryId == intersects[1].object.userData.countryId
                        countryData == MapGet(g.countryMeshes, countryId)
                    IN  IF Len(countryData) > 0
                          THEN [NoPick EXCEPT !.hit = TRUE,
                                              !.countryId = countryData[1].value.country.id,
                                              !.object = <<intersects[1].object>>]
                          ELSE NoPick :
               globeHits \in {globeHitsOf(ray)} })
      ELSE NoPick :
      intersects \in {intersectObjects(ray,
                        Flatten([k \in 1..Len(g.countryMeshes) |->
                                   g.countryMeshes[k].value.meshes]))} })

\* ------------------------------------------------------------------------
\* Sphere triangulator: the vertices a fill mesh is given
\* ------------------------------------------------------------------------
\* Vertex positions are computed in fixed point, in thousandths of a world
\* unit (the finest decimal of the mesh radii): a vertex is a triple of
\* integers.  Distances are compared by their squares, which orders them as
\* the distances themselves.
DEFAULT_MAX_EDGE == Q(3, 10)
HIT_MAX_EDGE == Q(1, 2)
OVERLAY_RADIUS == Q(1001, 200)

FixedUnit == 1000

toUnits(q) == (q[1] * FixedUnit) \div q[2]

toFixed(v) == [k \in 1..3 |-> toUnits(v[k])]

\* a.distanceTo(b), squared
distanceToSquared(a, b) ==
  (a[1] - b[1]) * (a[1] - b[1]) + (a[2] - b[2]) * (a[2] - b[2]) + (a[3] - b[3]) * (a[3] - b[3])

\* v.length(), rounded down
lengthOf(v) ==
  LET lengthSq == v[1] * v[1] + v[2] * v[2] + v[3] * v[3]
  IN  ISqrtBetween(lengthSq, 0, lengthSq)

\* v.setLength(l) = v.normalize().multiplyScalar(l), where normalize divides
\* by (length() || 1): the zero vector stays the zero vector
setLength(v, l) ==
  LET len == lengthOf(v)
  IN  IF len = 0 THEN v
      ELSE [k \in 1..3 |-> (2 * v[k] * l + len) \div (2 * len)]

\* mid.addVectors(p, q).multiplyScalar(0.5).setLength(radius); the halving
\* changes the length of the sum and not its direction
midpointOnSphere(p, q, radius) ==
  setLength([k \in 1..3 |-> p[k] + q[k]], radius)

\* One call of subdivideTriangle on the triangle <<a, b, c>>: the triangle
\* it pushes onto out, or the midpoint it makes and the two calls it goes
\* on to make, in order.
subdivideTriangle(triangle, radius, maxEdge) ==
  LET a == triangle[1]
      b == triangle[2]
      c == triangle[3]
      ab == distanceToSquared(a, b)
      bc == distanceToSquared(b, c)
      ca == distanceToSquared(c, a)
      max2 == maxEdge * maxEdge
  IN  IF ab <= max2 /\ bc <= max2 /\ ca <= max2
        THEN [out |-> <<triangle>>, mid |-> <<>>, calls |-> <<>>]
      ELSE IF ab >= bc /\ ab >= ca
        THEN LET mid == midpointOnSphere(a, b, radius)
             IN  [out |-> <<>>, mid |-> <<mid>>, calls |-> << <<a, mid, c>>, <<mid, b, c>> >>]
      ELSE IF bc >= ab /\ bc >= ca
        THEN LET mid == midpointOnSphere(b, c, radius)
             IN  [out |-> <<>>, mid |-> <<mid>>, calls |-> << <<a, b, mid>>, <<a, mid, c>> >>]
      ELSE LET mid == midpointOnSphere(c, a, radius)
           IN  [out |-> <<>>, mid |-> <<mid>>, calls |-> << <<a, b, mid>>, <<mid, b, c>> >>]

\* the deepest the calls of subdivideTriangle may nest before the engine
\* gives up with a RangeError
StackLimit == 16

\* The triangles of the overlay fill of one ring, before they are copied
\* into the vertex buffer: _createPolygonOverlay triangulates the ring in
\* the (lon, lat) plane.
overlayTriangles(coordinates, radius) ==
  IF Len(coordinates) < 3 THEN <<>>
  ELSE The({
    IF Len(openCoords) < 3 THEN <<>>
    ELSE The({ [k \in 1..Len(triangles) |->
                  << points3D[triangles[k][1]], points3D[triangles[k][2]],
                     points3D[triangles[k][3]] >>] :
                 points3D \in {[k \in 1..Len(openCoords) |->
                                 latLonToVector3(openCoords[k][2], openCoords[k][1], radius)]},
                 triangles \in {triangulateShape([k \in 1..Len(openCoords) |->
                                   <<I2Q(openCoords[k][1]), I2Q(openCoords[k][2])>>])} }) :
      openCoords \in {openCoordsOf(coordinates)} })

\* the triangles createFilledPolygon hands to subdivideTriangle
filledTriangles(coordinates, radius) ==
  LET made == filledPolygonOf(coordinates, radius)
  IN  IF made = <<>> THEN <<>> ELSE made[1].triangles

\* The builders of fill meshes: who calls, with which radius and which
\* maxEdge (the overlay builder has none).
MeshBuilders ==
  [ fill    |-> [radius |-> FILL_RADIUS, maxEdge |-> DEFAULT_MAX_EDGE, subdivides |-> TRUE],
    hit     |-> [radius |-> HIT_RADIUS, maxEdge |-> HIT_MAX_EDGE, subdivides |-> TRUE],
    overlay |-> [radius |-> OVERLAY_RADIUS, maxEdge |-> NONE, subdivides |-> FALSE] ]

MeshRings == InputRings

MeshInputs == { [builder |-> b, ring |-> r] : b \in DOMAIN MeshBuilders, r \in MeshRings }

NoMeshInput == [builder |-> NULL, ring |-> <<>>]

\* the triangles each builder makes of each input ring, computed once
MeshTriangleTable ==
  { << input,
       IF MeshBuilders[input.builder].subdivides
         THEN filledTriangles(input.ring, MeshBuilders[input.builder].radius)
         ELSE overlayTriangles(input.ring, MeshBuilders[input.builder].radius) >> :
      input \in MeshInputs }

trianglesOf(input) == (CHOOSE e \in MeshTriangleTable : e[1] = input)[2]

\* ------------------------------------------------------------------------
\* TheTrueSize3DApp: start-up and the overlay rows
\* ------------------------------------------------------------------------
\* SubdivisionLoader.subdivisions is [defined, features]: load() assigns it
\* data.features, which is undefined if the document fetched has no such
\* member.
NoSubdivisions == [defined |-> TRUE, features |-> <<>>]
UndefinedSubdivisions == [defined |-> FALSE, features |-> <<>>]

\* CountryLoader.getCountryList(), as the set of its items: the sort by
\* name is left out
getCountryList(list) ==
  { [ id |-> list[k].id,
      name |-> IF list[k].properties.name # NULL THEN list[k].properties.name
               ELSE "Country " \o list[k].id ] : k \in 1..Len(list) }

\* CountryLoader.getCountryById(id): the features find() goes through up to
\* the first with that id (none: null)
getCountryById(list, id) ==
  LET found == SelectSeq(list, LAMBDA c : c.id = id)
  IN  IF found = <<>> THEN <<>> ELSE <<found[1]>>

\* SubdivisionLoader.getSubdivisionList(), as the set of its items: the id
\* of an item is its index among the features that have a name
getSubdivisionList(list) ==
  LET named == SelectSeq(list, LAMBDA f : f.properties.name # NULL)
  IN  { [id |-> k - 1, name |-> named[k].properties.name] : k \in 1..Len(named) }

\* SubdivisionLoader.getSubdivisionById(id): this.subdivisions[id] || null
getSubdivisionById(list, id) ==
  IF id >= 0 /\ id < Len(list) THEN <<list[id + 1]>> ELSE <<>>

\* the items of the selectors: those of the countries and those of the
\* subdivisions
allItemsOf(list, subs) ==
  [countryItems |-> getCountryList(list), subdivisionItems |-> getSubdivisionList(subs)]

\* variant: a row is added whatever the number of rows
addOverlaySlotUnbounded(rows) == Append(rows, Len(rows))

\* addOverlaySlot(): this.overlaySlots after the call, each row given as its
\* slotIndex
addOverlaySlot(rows) ==
  LET slotIndex == Len(rows)
  IN  IF slotIndex >= 3 THEN rows ELSE Append(rows, slotIndex)

\* removeOverlaySlot(slotIndex): the first row of that slotIndex is removed
removeOverlaySlot(rows, slotIndex) ==
  LET at == {k \in 1..Len(rows) : rows[k] = slotIndex}
  IN  IF at = {} THEN rows
      ELSE LET idx == CHOOSE k \in at : \A j \in at : k <= j
           IN  SubSeq(rows, 1, idx - 1) \o SubSeq(rows, idx + 1, Len(rows))

\* What the application is started with: the catalog the primary load
\* resolves with, and the features the secondary load resolves with.
CountryAlpha ==
  [id |-> "004", properties |-> [name |-> "Alpha"],
   geometry |-> [type |-> "Polygon", coordinates |-> <<OctantNear>>]]
CountryGamma == [id |-> "010", properties |-> [name |-> "Gamma"], geometry |-> NoGeometry]
\* rings of fewer than 3 points, of no points, and of no area
CountryDegenerate ==
  [id |-> "012", properties |-> [name |-> NULL],
   geometry |-> [type |-> "MultiPolygon",
                 coordinates |-> << <<RingTwoPoints>>, << <<>> >>, <<RingCollinear>> >>]]
\* a polygon with no ring at all
CountryNoRing ==
  [id |-> "016", properties |-> [name |-> "Epsilon"],
   geometry |-> [type |-> "Polygon", coordinates |-> <<>>]]

\* a second feature of the id of CountryAlpha
CountryBeta ==
  [id |-> "004", properties |-> [name |-> "Beta"],
   geometry |-> [type |-> "Polygon", coordinates |-> <<OctantFar>>]]

AppCatalogs ==
  { <<CountryAlpha, CountryGamma>>,
    <<CountryDegenerate, CountryAlpha>>,
    <<CountryNoRing, CountryAlpha>>,
    <<CountryBeta, CountryAlpha>> }

\* a subdivision without a name, and one whose ring has no area
SubdivisionUnnamed ==
  [properties |-> [name |-> NULL, admin |-> "Alpha"],
   geometry |-> [type |-> "Polygon", coordinates |-> <<OctantNear>>]]
SubdivisionSouth ==
  [properties |-> [name |-> "South", admin |-> "Alpha"],
   geometry |-> [type |-> "Polygon", coordinates |-> <<RingCollinear>>]]

AppSubdivisions ==
  { [defined |-> TRUE, features |-> l] :
      l \in SubdivisionLists
             \cup { <<SubdivisionSouth, CHOOSE f \in {l[1] : l \in SubdivisionLists} : TRUE>>,
                    <<SubdivisionUnnamed, SubdivisionSouth>> } }
    \cup {UndefinedSubdivisions}

\* ------------------------------------------------------------------------
\* setupOverlayDrag: the raycast against the fill meshes of the overlays
\* ------------------------------------------------------------------------
\* Ray.intersectTriangle(a, b, c, false): the distance along the ray from o
\* along d at which it meets the triangle, from either side; none if the
\* ray is parallel to the triangle's plane or passes it by
intersectTriangle(o, d, tri) ==
  The({ The({ The({
    IF DdN = Zero THEN <<>>
    ELSE The({ The({
      IF QLt(DdQxE2, Zero) \/ QLt(DdE1xQ, Zero)
           \/ QLt(QAbs(DdN), QAdd(DdQxE2, DdE1xQ)) \/ QLt(QdN, Zero)
        THEN <<>>
        ELSE <<QDiv(QdN, QAbs(DdN))>> :
        DdQxE2 \in {QMul(sign, Dot(d, Cross(diff, edge2)))},
        DdE1xQ \in {QMul(sign, Dot(d, Cross(edge1, diff)))},
        QdN \in {QMul(QNeg(sign), Dot(diff, normal))} }) :
        sign \in {IF QLt(Zero, DdN) THEN One ELSE I2Q(-1)}, diff \in {VSub(o, tri[1])} }) :
      DdN \in {Dot(d, normal)} }) :
      normal \in {Cross(edge1, edge2)} }) :
      edge1 \in {VSub(tri[2], tri[1])}, edge2 \in {VSub(tri[3], tri[1])} })

\* Quaternion.invert() of a unit quaternion: the conjugate
invertQuaternion(q) == <<-q[1], -q[2], -q[3], q[4]>>

\* Mesh.raycast of a fill mesh of an overlay: the ray is taken into the frame
\* of the slot's group, which the group's quaternion turns about the origin,
\* and met with every triangle (DoubleSide).  Lengths are measured in units
\* of the overlay radius, as those of the globe's raycaster are in units of
\* the border radius.
raycastOverlayMesh(ray, child, quaternion) ==
  The({ The({
    [j \in 1..Len(ts) |-> [distance |-> QMul(ts[j], OVERLAY_RADIUS), object |-> child]] :
      ts \in {Flatten([k \in 1..Len(triangles) |-> intersectTriangle(o, d, triangles[k])])} }) :
      o \in {VScale(applyQuaternion(ray.origin, invertQuaternion(quaternion)),
                    QDiv(One, OVERLAY_RADIUS))},
      d \in {applyQuaternion(ray.direction, invertQuaternion(quaternion))},
      triangles \in {overlayTriangles(child.geometry[3], One)} })

\* dragRaycaster.setFromCamera(ndc, camera); intersectObjects(meshes, false)
\* on the meshes of getOverlayMeshes()
overlayHits(ss, ndc, camPos) ==
  The({ The({
    sortByDistance(Flatten([k \in 1..Len(meshes) |->
      raycastOverlayMesh(ray, meshes[k], ss[meshes[k].userData.slotIndex].quaternion)])) :
      ray \in {setFromCamera(ndc, camPos)} }) :
      meshes \in {getOverlayMeshes(ss)} })

\* the features offered by the selectors of the overlay rows
AppFeatures == {"poly", "nogeom"}

\* ------------------------------------------------------------------------
\* State
\* ------------------------------------------------------------------------
VARIABLES
  slots,           \* CountryOverlay.slots
  userRotation,    \* CountryOverlay.userRotation, in degrees
  geometries,      \* the BufferGeometry objects created and not yet disposed
  cameraPosition,  \* camera.position, moved by the orbit controls
  lastCall,        \* history: per slot, the last of show / clear that targeted it
  shownCentroid,   \* history: per slot, the centroidDir its last show computed
  pending          \* input events handled since update() last ran

VARIABLES
  loadState,       \* CountryLoader.load(): "idle", "parsing", "loaded", "failed"
  topology,        \* the topology object load() fetched
  decodedArcs,     \* parseTopoJSON: the decoded arc table
  features,        \* parseTopoJSON: the features converted so far
  countries        \* CountryLoader.countries

VARIABLES
  countryMeshes,        \* Globe.countryMeshes: Map id -> {country, meshes}
  countryFillMeshes,    \* Globe.countryFillMeshes
  subdivisionHitMeshes, \* Globe.subdivisionHitMeshes
  rendered,             \* how far the start-up has come: "none", "countries", "all";
                        \* "failed" if rendering threw
  hovered,              \* what onHover last received
  clicked,              \* what onCountryClick last received
  lastPick              \* history: the last pick, its ray and its outcome

VARIABLES
  meshInput,       \* the builder at work and the ring it was given
  workStack,       \* the calls of subdivideTriangle waiting, first on top, with their depth
  outLast,         \* the triangle pushed last onto the vertex array
  outCount,        \* the number of triangles pushed onto it
  lastMid,         \* the midpoint made last
  meshPhase        \* "idle", "building", "built", "none" (null returned), "threw"

VARIABLES
  primaryLoad,     \* countryLoader.load(): "pending", "resolved", "rejected"
  secondaryLoad,   \* subdivisionLoader.load(): "pending", "resolved", "rejected"
  subdivisions,    \* SubdivisionLoader.subdivisions
  allItems,        \* this.allItems
  initState,       \* init(): "loading" (awaiting the loads), "ready", "error" (caught)
  overlayCreated,  \* this.overlay has been constructed
  overlaySlots,    \* this.overlaySlots, each row given as its slotIndex
  updateLoop,      \* startOverlayUpdate() has run
  loadingElement   \* the loading element: "loading", "hidden", "error"

VARIABLES
  mouseDownPos,    \* Globe.mouseDownPos, in client pixels
  pressed,         \* a button went down on the canvas and its click is yet to come
  lastClick        \* history: the last click event, and whether onCanvasClick ran

VARIABLES
  draggingSlot,    \* this.draggingSlot of setupOverlayDrag, -1 if none
  controlsEnabled, \* globe.controls.enabled
  cursor,          \* canvas.style.cursor: "", "grab", "grabbing"
  storedNDC        \* history: per slot, the coordinate setDisplayNDC stored last

VARIABLES
  compassHidden,   \* the compass control carries the class "hidden"
  compassRotation, \* this.compassRotation, in degrees
  compassDragging, \* setupCompass: dragging
  dragStartAngle,  \* setupCompass: dragStartAngle, in degrees
  rotationAtStart  \* setupCompass: rotationAtStart, in degrees

overlayVars == <<slots, userRotation, geometries, cameraPosition, lastCall, shownCentroid, pending>>
topoVars == <<loadState, topology, decodedArcs, features, countries>>
pickVars == <<countryMeshes, countryFillMeshes, subdivisionHitMeshes, rendered,
              hovered, clicked, lastPick>>
meshVars == <<meshInput, workStack, outLast, outCount, lastMid, meshPhase>>
appVars == <<primaryLoad, secondaryLoad, subdivisions, allItems, initState, overlayCreated,
            overlaySlots, updateLoop, loadingElement>>
clickVars == <<mouseDownPos, pressed, lastClick>>
dragVars == <<draggingSlot, controlsEnabled, cursor, storedNDC>>
compassVars == <<compassHidden, compassRotation, compassDragging, dragStartAngle, rotationAtStart>>
pointerVars == <<clickVars, dragVars, compassVars>>
notOverlay == <<topoVars, pickVars, meshVars, appVars, pointerVars>>
notTopo == <<overlayVars, pickVars, meshVars, appVars, pointerVars>>
notPick == <<overlayVars, topoVars, meshVars, appVars, pointerVars>>
notMesh == <<overlayVars, topoVars, pickVars, appVars, pointerVars>>
vars == <<overlayVars, topoVars, pickVars, meshVars, appVars, pointerVars>>

Engine == [slots |-> slots, geometries |-> geometries]

OverlayInit ==
  /\ slots = [i \in SlotIndices |-> InitialSlot(i)]
  /\ userRotation = 0
  /\ geometries = EmptyBag
  /\ cameraPosition = CameraPositions[1]
  /\ lastCall = [i \in SlotIndices |-> "none"]
  /\ shownCentroid = [i \in SlotIndices |-> NONE]
  /\ pending = 0

\* overlay.show(f, i)
OverlayShow(f, i) ==
  /\ BagCardinality(geometries) <= MaxGeometries
  /\ LET e == show(Engine, f, i, cameraPosition, userRotation)
     IN  /\ slots' = e.slots
         /\ geometries' = e.geometries
         /\ shownCentroid' = [shownCentroid EXCEPT ![i] =
              IF Features[f].geometry.coordinates = NULL THEN NONE
              ELSE centroidDirectionOf(Features[f].geometry)]
         /\ pending' = IF Features[f].geometry.coordinates # NULL THEN 0 ELSE pending
  /\ lastCall' = [lastCall EXCEPT ![i] = "show"]
  /\ UNCHANGED <<userRotation, cameraPosition>>

Show(f, i) == OverlayShow(f, i) /\ UNCHANGED notOverlay

Clear(i) ==
  /\ LET e == clear(Engine, i)
     IN  /\ slots' = e.slots
         /\ geometries' = e.geometries
  /\ lastCall' = [lastCall EXCEPT ![i] = "clear"]
  /\ shownCentroid' = [shownCentroid EXCEPT ![i] = NONE]
  /\ UNCHANGED <<userRotation, cameraPosition, pending, notOverlay>>

ClearAll ==
  /\ LET e == clearAll(Engine)
     IN  /\ slots' = e.slots
         /\ geometries' = e.geometries
  /\ lastCall' = [i \in SlotIndices |-> "clear"]
  /\ shownCentroid' = [i \in SlotIndices |-> NONE]
  /\ UNCHANGED <<userRotation, cameraPosition, pending, notOverlay>>

SetRotation(radians) ==
  /\ pending < MaxPending
  /\ userRotation' = radians
  /\ pending' = pending + 1
  /\ UNCHANGED <<slots, geometries, cameraPosition, lastCall, shownCentroid, notOverlay>>

\* a drag of the overlay under the pointer (setupOverlayDrag): the dragged
\* slot is the slotIndex of a mesh getOverlayMeshes() returned
SetDisplayNDC(i, ndc) ==
  /\ pending < MaxPending
  /\ \E k \in 1..Len(getOverlayMeshes(slots)) :
       getOverlayMeshes(slots)[k].userData.slotIndex = i
  /\ slots' = setDisplayNDC(slots, i, ndc)
  /\ pending' = pending + 1
  /\ UNCHANGED <<userRotation, geometries, cameraPosition, lastCall, shownCentroid, notOverlay>>

\* one animation frame of startOverlayUpdate
Update ==
  /\ slots' = update(slots, cameraPosition, userRotation)
  /\ pending' = 0
  /\ UNCHANGED <<userRotation, geometries, cameraPosition, lastCall, shownCentroid, notOverlay>>

\* the orbit controls move the camera
MoveCamera(p) ==
  /\ pending < MaxPending
  /\ p # cameraPosition
  /\ cameraPosition' = p
  /\ pending' = pending + 1
  /\ UNCHANGED <<slots, userRotation, geometries, lastCall, shownCentroid, notOverlay>>

\* ------------------------------------------------------------------------
\* CountryLoader.load()
\* ------------------------------------------------------------------------
TopoInit ==
  /\ loadState = "idle"
  /\ topology = NoTopology
  /\ decodedArcs = <<>>
  /\ features = <<>>
  /\ countries = <<>>

PickInit ==
  /\ countryMeshes = <<>>
  /\ countryFillMeshes = <<>>
  /\ subdivisionHitMeshes = <<>>
  /\ rendered = "none"
  /\ hovered = NoPick
  /\ clicked = NoPick
  /\ lastPick = [path |-> "none", ndc |-> <<Zero, Zero>>, camera |-> Vec(0, 0, 0),
                 rendered |-> "none", result |-> NoPick]

MeshInit ==
  /\ meshInput = NoMeshInput
  /\ workStack = <<>>
  /\ outLast = NONE
  /\ outCount = 0
  /\ lastMid = NONE
  /\ meshPhase = "idle"

\* the constructor has called init(), which awaits the two loads
AppInit ==
  /\ primaryLoad = "pending"
  /\ secondaryLoad = "pending"
  /\ subdivisions = NoSubdivisions
  /\ allItems = [countryItems |-> {}, subdivisionItems |-> {}]
  /\ initState = "loading"
  /\ overlayCreated = FALSE
  /\ overlaySlots = <<>>
  /\ updateLoop = FALSE
  /\ loadingElement = "loading"

\* setupRaycaster: no press yet
PointerInit ==
  /\ mouseDownPos = <<0, 0>>
  /\ pressed = FALSE
  /\ lastClick = [down |-> <<0, 0>>, at |-> <<0, 0>>, reached |-> FALSE]
  /\ draggingSlot = -1
  /\ controlsEnabled = TRUE
  /\ cursor = ""
  /\ storedNDC = [i \in SlotIndices |-> NONE]
  /\ compassHidden = TRUE
  /\ compassRotation = 0
  /\ compassDragging = FALSE
  /\ dragStartAngle = 0
  /\ rotationAtStart = 0

Init == OverlayInit /\ TopoInit /\ PickInit /\ MeshInit /\ AppInit /\ PointerInit

\* load() receives the topology; parseTopoJSON decodes every arc
ParseTopoJSON(t) ==
  /\ loadState = "idle"
  /\ topology' = t
  /\ decodedArcs' = decodeArcs(t.arcs, t.transform)
  /\ features' = <<>>
  /\ loadState' = "parsing"
  /\ UNCHANGED <<countries, notTopo>>

\* one step of countries.geometries.map(geom => ...)
ConvertGeometry ==
  /\ loadState = "parsing"
  /\ Len(features) < Len(topology.objects.countries.geometries)
  /\ LET geom == topology.objects.countries.geometries[Len(features) + 1]
         r == topoGeometryToGeoJSON(geom, decodedArcs)
     IN  /\ decodedArcs' = r.arcs
         /\ IF r.threw
              THEN \* the TypeError leaves parseTopoJSON; load() logs and rethrows
                   /\ loadState' = "failed"
                   /\ features' = features
              ELSE /\ loadState' = loadState
                   /\ features' = Append(features,
                        [ type |-> "Feature", id |-> geom.id,
                          properties |-> geom.properties,
                          geometry |-> r.geometry ])
  /\ UNCHANGED <<topology, countries, notTopo>>

\* parseTopoJSON returns; load() stores the features
LoadReturn ==
  /\ loadState = "parsing"
  /\ Len(features) = Len(topology.objects.countries.geometries)
  /\ countries' = features
  /\ loadState' = "loaded"
  /\ UNCHANGED <<topology, decodedArcs, features, notTopo>>

TopoNext ==
  \/ \E t \in Topologies : ParseTopoJSON(t)
  \/ ConvertGeometry
  \/ LoadReturn

SpecTopo == Init /\ [][TopoNext]_vars

\* ------------------------------------------------------------------------
\* Globe: rendering and picking
\* ------------------------------------------------------------------------
Scene == GlobeState(countryMeshes, countryFillMeshes, subdivisionHitMeshes)

\* the application renders the loaded countries once, at start-up
RenderCountries(list) ==
  /\ rendered = "none"
  /\ \E g \in {renderCountries(Scene, list)} :
         /\ countryMeshes' = g.countryMeshes
         /\ countryFillMeshes' = g.countryFillMeshes
         /\ rendered' = IF g.threw THEN "failed" ELSE "countries"
  /\ UNCHANGED <<subdivisionHitMeshes, hovered, clicked, lastPick, notPick>>

\* ... and then the subdivisions, if any were loaded
RenderSubdivisions(list) ==
  /\ rendered = "countries"
  /\ Len(list) > 0
  /\ \E made \in {renderSubdivisions(subdivisionHitMeshes, list)} :
         /\ subdivisionHitMeshes' = made.hitMeshes
         /\ rendered' = IF made.threw THEN "failed" ELSE "all"
  /\ UNCHANGED <<countryMeshes, countryFillMeshes, hovered, clicked, lastPick,
                 notPick>>

\* mousemove over the canvas at the screen point ndc
Hover(ndc) ==
  /\ \E result \in {hoverPick(Scene, setFromCamera(ndc, cameraPosition))} :
         /\ hovered' = result
         /\ lastPick' = [path |-> "hover", ndc |-> ndc, camera |-> cameraPosition,
                         rendered |-> rendered, result |-> result]
  /\ UNCHANGED <<countryMeshes, countryFillMeshes, subdivisionHitMeshes, rendered, clicked,
                 notPick>>

\* onCanvasClick(event), the event at the screen point ndc
OnCanvasClick(ndc) ==
  /\ \E result \in {clickPick(Scene, setFromCamera(ndc, cameraPosition))} :
         /\ clicked' = IF result.hit THEN result ELSE clicked
         /\ lastPick' = [path |-> "click", ndc |-> ndc, camera |-> cameraPosition,
                         rendered |-> rendered, result |-> result]
  /\ UNCHANGED <<countryMeshes, countryFillMeshes, subdivisionHitMeshes, rendered, hovered>>

\* click (no drag) on the canvas at the screen point ndc
Click(ndc) == OnCanvasClick(ndc) /\ UNCHANGED notPick

\* Client pixels of pointer events: some around the centre of the canvas,
\* whose ray is that of the screen point (0, 0), and one to the right of it,
\* whose ray is that of the screen point (3/4, 0).
PixelOffsets == { <<0, 0>>, <<3, 0>>, <<2, 2>>, <<3, 1>>, <<4, 0>> }
Pixels == { <<400 + o[1], 300 + o[2]>> : o \in PixelOffsets } \cup { <<700, 300>> }

\* the screen point of the model's rays next to a pixel
screenPointOf(pixel) == IF pixel[1] < 550 THEN <<Zero, Zero>> ELSE <<Q(3, 4), Zero>>

\* variant: a pointer that moved exactly the threshold counts as a drag
isDragStrict(down, at) ==
  \E dx \in {at[1] - down[1]}, dy \in {at[2] - down[2]} : dx * dx + dy * dy >= 9

\* the test of the click listener: dx * dx + dy * dy > 9
isDrag(down, at) ==
  \E dx \in {at[1] - down[1]}, dy \in {at[2] - down[2]} : dx * dx + dy * dy > 9

\* the mousedown listener of setupRaycaster
MouseDown(pixel) ==
  /\ mouseDownPos' = pixel
  /\ pressed' = TRUE
  /\ UNCHANGED <<lastClick, overlayVars, topoVars, pickVars, meshVars, appVars,
                 dragVars, compassVars>>

\* the click listener of setupRaycaster; the browser sends a click after a
\* press and a release on the canvas
CanvasClick(pixel) ==
  /\ pressed
  /\ pressed' = FALSE
  /\ lastClick' = [down |-> mouseDownPos, at |-> pixel, reached |-> ~isDrag(mouseDownPos, pixel)]
  /\ IF isDrag(mouseDownPos, pixel)
       THEN UNCHANGED pickVars
       ELSE OnCanvasClick(screenPointOf(pixel))
  /\ UNCHANGED <<mouseDownPos, overlayVars, topoVars, meshVars, appVars, dragVars, compassVars>>

\* the application started, the camera already turned to a pick camera
InitPick ==
  /\ slots = [i \in SlotIndices |-> InitialSlot(i)]
  /\ userRotation = 0
  /\ geometries = EmptyBag
  /\ cameraPosition \in PickCameras
  /\ lastCall = [i \in SlotIndices |-> "none"]
  /\ shownCentroid = [i \in SlotIndices |-> NONE]
  /\ pending = 0
  /\ TopoInit
  /\ PickInit
  /\ MeshInit
  /\ AppInit
  /\ PointerInit

PickNext ==
  \/ \E c \in Catalogs : RenderCountries(c)
  \/ \E l \in SubdivisionLists : RenderSubdivisions(l)
  \/ \E n \in PickPoints : Hover(n)
  \/ \E n \in PickPoints : Click(n)
  \/ \E p \in PickCameras : MoveCamera(p)
  \/ Update

SpecPick == InitPick /\ [][PickNext]_vars

PointerNext ==
  \/ \E c \in {list \in Catalogs : Len(list) = 1} : RenderCountries(c)
  \/ \E pixel \in Pixels : MouseDown(pixel)
  \/ \E pixel \in Pixels : CanvasClick(pixel)

SpecPointer == InitPick /\ [][PointerNext]_vars

\* the builder is called with a ring: the ring is triangulated, and every
\* triangle found waits to be subdivided (or copied, by the overlay builder)
StartMesh ==
  /\ meshPhase = "idle"
  /\ meshInput # NoMeshInput
  /\ \E triangles \in {trianglesOf(meshInput)} :
       /\ workStack' = [k \in 1..Len(triangles) |->
                          [ triangle |-> << toFixed(triangles[k][1]), toFixed(triangles[k][2]),
                                            toFixed(triangles[k][3]) >>,
                            depth |-> 1 ]]
       /\ meshPhase' = IF Len(triangles) = 0 THEN "none" ELSE "building"
  /\ UNCHANGED <<meshInput, outLast, outCount, lastMid, notMesh>>

\* the call of subdivideTriangle on top of the stack runs up to its first
\* nested call
SubdivideStep ==
  /\ meshPhase = "building"
  /\ MeshBuilders[meshInput.builder].subdivides
  /\ \E frame \in {Head(workStack)} :
     \E step \in {subdivideTriangle(frame.triangle,
                                     toUnits(MeshBuilders[meshInput.builder].radius),
                                     toUnits(MeshBuilders[meshInput.builder].maxEdge))} :
         IF step.calls = <<>>
           THEN /\ outLast' = step.out[1]
                /\ outCount' = outCount + 1
                /\ workStack' = Tail(workStack)
                /\ meshPhase' = IF Tail(workStack) = <<>> THEN "built" ELSE "building"
                /\ UNCHANGED lastMid
         ELSE IF frame.depth >= StackLimit
           THEN /\ lastMid' = step.mid[1]
                /\ workStack' = <<>>
                /\ meshPhase' = "threw"
                /\ UNCHANGED <<outLast, outCount>>
         ELSE /\ lastMid' = step.mid[1]
              /\ workStack' = << [triangle |-> step.calls[1], depth |-> frame.depth + 1],
                                 [triangle |-> step.calls[2], depth |-> frame.depth + 1] >>
                               \o Tail(workStack)
              /\ UNCHANGED <<outLast, outCount, meshPhase>>
  /\ UNCHANGED <<meshInput, notMesh>>

\* _createPolygonOverlay copies the next triangle into the vertex array
CopyTriangle ==
  /\ meshPhase = "building"
  /\ ~MeshBuilders[meshInput.builder].subdivides
  /\ outLast' = Head(workStack).triangle
  /\ outCount' = outCount + 1
  /\ workStack' = Tail(workStack)
  /\ meshPhase' = IF Tail(workStack) = <<>> THEN "built" ELSE "building"
  /\ UNCHANGED <<meshInput, lastMid, notMesh>>

InitMesh ==
  /\ OverlayInit
  /\ TopoInit
  /\ PickInit
  /\ meshInput \in MeshInputs
  /\ workStack = <<>>
  /\ outLast = NONE
  /\ outCount = 0
  /\ lastMid = NONE
  /\ meshPhase = "idle"
  /\ AppInit
  /\ PointerInit

MeshNext == StartMesh \/ SubdivideStep \/ CopyTriangle

SpecMesh == InitMesh /\ [][MeshNext]_vars

\* variant: a later response of the primary load replaces the catalog
PrimaryResolvesAgain(list) ==
  /\ primaryLoad # "rejected"
  /\ primaryLoad' = "resolved"
  /\ countries' = list
  /\ UNCHANGED <<loadState, topology, decodedArcs, features, secondaryLoad, subdivisions,
                 allItems, initState, overlayCreated, overlaySlots, updateLoop, loadingElement,
                 overlayVars, pickVars, meshVars, pointerVars>>

\* countryLoader.load() resolves: the catalog is in CountryLoader.countries
PrimaryResolves(list) ==
  /\ primaryLoad = "pending"
  /\ primaryLoad' = "resolved"
  /\ countries' = list
  /\ UNCHANGED <<loadState, topology, decodedArcs, features, secondaryLoad, subdivisions,
                 allItems, initState, overlayCreated, overlaySlots, updateLoop, loadingElement,
                 overlayVars, pickVars, meshVars, pointerVars>>

\* variant: the rejection is swallowed like that of the secondary load
PrimaryRejectsSilently ==
  /\ primaryLoad = "pending"
  /\ primaryLoad' = "rejected"
  /\ UNCHANGED <<initState, loadingElement>>
  /\ UNCHANGED <<secondaryLoad, subdivisions, allItems, overlayCreated, overlaySlots,
                 updateLoop, overlayVars, topoVars, pickVars, meshVars, pointerVars>>

\* countryLoader.load() rejects: Promise.all rejects with it, whatever the
\* other load has done, and init() goes to its catch block
PrimaryRejects ==
  /\ primaryLoad = "pending"
  /\ primaryLoad' = "rejected"
  /\ initState' = "error"
  /\ loadingElement' = "error"
  /\ UNCHANGED <<secondaryLoad, subdivisions, allItems, overlayCreated, overlaySlots,
                 updateLoop, overlayVars, topoVars, pickVars, meshVars, pointerVars>>

\* subdivisionLoader.load() resolves, having assigned data.features
SecondaryResolves(subs) ==
  /\ secondaryLoad = "pending"
  /\ secondaryLoad' = "resolved"
  /\ subdivisions' = subs
  /\ UNCHANGED <<primaryLoad, allItems, initState, overlayCreated, overlaySlots, updateLoop,
                 loadingElement, overlayVars, topoVars, pickVars, meshVars, pointerVars>>

\* subdivisionLoader.load() rejects: the catch attached to it warns
SecondaryRejects ==
  /\ secondaryLoad = "pending"
  /\ secondaryLoad' = "rejected"
  /\ UNCHANGED <<primaryLoad, subdivisions, allItems, initState, overlayCreated, overlaySlots,
                 updateLoop, loadingElement, overlayVars, topoVars, pickVars, meshVars, pointerVars>>

\* init() after the await, once both loads have settled and the primary
\* one has resolved: the overlay engine, the items, the two renderings, the
\* first row, the handlers and the frame loop.  Whatever throws on the way
\* takes init() to its catch block with what was done so far.
CompleteInit ==
  /\ initState = "loading"
  /\ primaryLoad = "resolved"
  /\ secondaryLoad # "pending"
  /\ overlayCreated' = TRUE
  /\ \E g \in {renderCountries(Scene, countries)},
        made \in {renderSubdivisions(subdivisionHitMeshes, subdivisions.features)} :
     LET listed == subdivisions.defined
         rendersCountries == listed /\ ~g.threw
         withSubdivisions == rendersCountries /\ Len(subdivisions.features) > 0
         completes == rendersCountries /\ (withSubdivisions => ~made.threw)
     IN  /\ allItems' = IF listed THEN allItemsOf(countries, subdivisions.features)
                        ELSE allItems
         /\ countryMeshes' = IF listed THEN g.countryMeshes ELSE countryMeshes
         /\ countryFillMeshes' = IF listed THEN g.countryFillMeshes ELSE countryFillMeshes
         /\ subdivisionHitMeshes' = IF withSubdivisions THEN made.hitMeshes
                                    ELSE subdivisionHitMeshes
         /\ rendered' = IF ~listed THEN rendered
                        ELSE IF g.threw THEN "failed"
                        ELSE IF ~withSubdivisions THEN "countries"
                        ELSE IF made.threw THEN "failed" ELSE "all"
         /\ overlaySlots' = IF completes THEN addOverlaySlot(overlaySlots) ELSE overlaySlots
         /\ slots' = IF completes THEN update(slots, cameraPosition, userRotation) ELSE slots
         /\ updateLoop' = completes
         /\ initState' = IF completes THEN "ready" ELSE "error"
         /\ loadingElement' = IF completes THEN "hidden" ELSE "error"
  /\ UNCHANGED <<primaryLoad, secondaryLoad, subdivisions, hovered, clicked, lastPick,
                 userRotation, geometries, cameraPosition, lastCall, shownCentroid, pending,
                 topoVars, meshVars, pointerVars>>

\* the "+ Add Overlay" button
AddRow ==
  /\ initState = "ready"
  /\ overlaySlots' = addOverlaySlot(overlaySlots)
  /\ UNCHANGED <<primaryLoad, secondaryLoad, subdivisions, allItems, initState, overlayCreated,
                 updateLoop, loadingElement, overlayVars, topoVars, pickVars, meshVars, pointerVars>>

\* a feature is selected in the selector of a row: the onSelect callback
\* of addOverlaySlot shows it and reveals the compass
SelectInRow(row, f) ==
  /\ initState = "ready"
  /\ row \in 1..Len(overlaySlots)
  /\ OverlayShow(f, overlaySlots[row])
  /\ compassHidden' = FALSE
  /\ UNCHANGED <<compassRotation, compassDragging, dragStartAngle, rotationAtStart,
                 clickVars, dragVars, topoVars, pickVars, meshVars, appVars>>

\* the clear button of a row: overlay.clear(slotIndex), then
\* removeOverlaySlot(slotIndex), which resets the compass if nothing is shown
ClearRow(row) ==
  /\ initState = "ready"
  /\ row \in 1..Len(overlaySlots)
  /\ LET slotIndex == overlaySlots[row]
         e == clear(Engine, slotIndex)
     IN  /\ slots' = e.slots
         /\ geometries' = e.geometries
         /\ lastCall' = [lastCall EXCEPT ![slotIndex] = "clear"]
         /\ shownCentroid' = [shownCentroid EXCEPT ![slotIndex] = NONE]
         /\ overlaySlots' = removeOverlaySlot(overlaySlots, slotIndex)
         /\ userRotation' = IF hasAnyOverlay(e.slots) THEN userRotation ELSE 0
         /\ compassRotation' = IF hasAnyOverlay(e.slots) THEN compassRotation ELSE 0
         /\ compassHidden' = IF hasAnyOverlay(e.slots) THEN compassHidden ELSE TRUE
  /\ UNCHANGED <<cameraPosition, pending, primaryLoad, secondaryLoad, subdivisions, allItems,
                 initState, overlayCreated, updateLoop, loadingElement, topoVars, pickVars,
                 meshVars, clickVars, dragVars, compassDragging, dragStartAngle,
                 rotationAtStart>>

\* a frame of the loop startOverlayUpdate() started
AppFrame == updateLoop /\ Update

AppNext ==
  \/ \E list \in AppCatalogs : PrimaryResolves(list)
  \/ PrimaryRejects
  \/ \E subs \in AppSubdivisions : SecondaryResolves(subs)
  \/ SecondaryRejects
  \/ CompleteInit
  \/ AddRow
  \/ \E row \in 1..NUM_SLOTS, f \in AppFeatures : SelectInRow(row, f)
  \/ \E row \in 1..NUM_SLOTS : ClearRow(row)
  \/ AppFrame

SpecApp == Init /\ [][AppNext]_vars

\* ------------------------------------------------------------------------
\* setupOverlayDrag: the pointer drags an overlay over the globe
\* ------------------------------------------------------------------------
\* the screen points of the presses: one over the triangle of "octant" when
\* it faces the first camera, one right of it
DragPressPoints == { <<Q(-1, 4), Q(1, 3)>>, ScreenPointTable[1] }

\* the screen point the pointer drags an overlay to
DragMovePoints == { ScreenPointTable[1] }

\* input events counted since update() last ran, up to MaxPending
Pended == IF pending < MaxPending THEN pending + 1 ELSE pending

\* what no listener of setupOverlayDrag touches
notDragged ==
  <<userRotation, geometries, cameraPosition, lastCall, shownCentroid,
    topoVars, pickVars, meshVars, appVars, clickVars, compassVars>>

\* meshes = overlay.getOverlayMeshes(); with none the listener returns, else
\* hits = dragRaycaster.intersectObjects(meshes, false)
dragHits(ndc) ==
  IF Len(getOverlayMeshes(slots)) = 0 THEN <<>>
  ELSE overlayHits(slots, ndc, cameraPosition)

\* variant: the release leaves the orbit controls disabled
DragMouseUpKeepingControls ==
  /\ initState = "ready"
  /\ IF draggingSlot # -1
       THEN draggingSlot' = -1 /\ cursor' = ""
       ELSE UNCHANGED <<draggingSlot, cursor>>
  /\ UNCHANGED <<controlsEnabled, slots, pending, storedNDC, notDragged>>

\* canvas mousedown: a press over a fill mesh starts the drag of the slot
\* of the nearest one
DragMouseDown(ndc) ==
  /\ initState = "ready"
  /\ \E hits \in {dragHits(ndc)} :
       IF Len(hits) > 0
         THEN /\ draggingSlot' = hits[1].object.userData.slotIndex
              /\ controlsEnabled' = FALSE
              /\ cursor' = "grabbing"
         ELSE UNCHANGED <<draggingSlot, controlsEnabled, cursor>>
  /\ UNCHANGED <<slots, pending, storedNDC, notDragged>>

\* canvas touchstart
DragTouchStart(ndc) ==
  /\ initState = "ready"
  /\ \E hits \in {dragHits(ndc)} :
       IF Len(hits) > 0
         THEN /\ draggingSlot' = hits[1].object.userData.slotIndex
              /\ controlsEnabled' = FALSE
         ELSE UNCHANGED <<draggingSlot, controlsEnabled>>
  /\ UNCHANGED <<cursor, slots, pending, storedNDC, notDragged>>

\* canvas mousemove: the dragged slot is given the pointer's coordinate; with
\* no drag the cursor tells whether an overlay is under the pointer
DragMouseMove(ndc) ==
  /\ initState = "ready"
  /\ IF draggingSlot # -1
       THEN /\ slots' = setDisplayNDC(slots, draggingSlot, ndc)
            /\ storedNDC' = [storedNDC EXCEPT ![draggingSlot] = ndc]
            /\ pending' = Pended
            /\ UNCHANGED cursor
       ELSE /\ cursor' = IF Len(dragHits(ndc)) > 0 THEN "grab" ELSE ""
            /\ UNCHANGED <<slots, storedNDC, pending>>
  /\ UNCHANGED <<draggingSlot, controlsEnabled, notDragged>>

\* canvas touchmove
DragTouchMove(ndc) ==
  /\ initState = "ready"
  /\ IF draggingSlot # -1
       THEN /\ slots' = setDisplayNDC(slots, draggingSlot, ndc)
            /\ storedNDC' = [storedNDC EXCEPT ![draggingSlot] = ndc]
            /\ pending' = Pended
       ELSE UNCHANGED <<slots, storedNDC, pending>>
  /\ UNCHANGED <<draggingSlot, controlsEnabled, cursor, notDragged>>

\* document mouseup
DragMouseUp ==
  /\ initState = "ready"
  /\ IF draggingSlot # -1
       THEN draggingSlot' = -1 /\ controlsEnabled' = TRUE /\ cursor' = ""
       ELSE UNCHANGED <<draggingSlot, controlsEnabled, cursor>>
  /\ UNCHANGED <<slots, pending, storedNDC, notDragged>>

\* document touchend
DragTouchEnd ==
  /\ initState = "ready"
  /\ IF draggingSlot # -1
       THEN draggingSlot' = -1 /\ controlsEnabled' = TRUE
       ELSE UNCHANGED <<draggingSlot, controlsEnabled>>
  /\ UNCHANGED <<cursor, slots, pending, storedNDC, notDragged>>

\* the orbit controls turn the camera on pointer input while they are
\* enabled
OrbitCamera(p) == controlsEnabled /\ MoveCamera(p)

\* the catalog and the features of the rows where an overlay is dragged
DragCatalog == <<CountryAlpha, CountryGamma>>

\* rows are added up to MaxDragRows
MaxDragRows == 2

DragNext ==
  \/ PrimaryResolves(DragCatalog)
  \/ SecondaryRejects
  \/ CompleteInit
  \/ (Len(overlaySlots) < MaxDragRows /\ AddRow)
  \/ \E row \in 1..MaxDragRows, f \in DragFeatures : SelectInRow(row, f)
  \/ \E row \in 1..MaxDragRows : ClearRow(row)
  \/ \E n \in DragPressPoints : DragMouseDown(n)
  \/ \E n \in DragPressPoints : DragTouchStart(n)
  \/ \E n \in DragMovePoints : DragMouseMove(n)
  \/ \E n \in DragMovePoints : DragTouchMove(n)
  \/ DragMouseUp
  \/ DragTouchEnd
  \/ \E p \in Cameras : OrbitCamera(p)
  \/ AppFrame

SpecDrag == Init /\ [][DragNext]_vars

\* ------------------------------------------------------------------------
\* setupCompass: the compass dial turns all overlays
\* ------------------------------------------------------------------------
\* the angles of the pointer about the centre of the dial (getPointerAngle),
\* in degrees
CompassAngles == {0, 90}

\* the dial is turned no further than this from its rest position
MaxCompassTurn == 90

\* what no listener of setupCompass touches
notCompass ==
  <<slots, geometries, cameraPosition, lastCall, shownCentroid, compassHidden,
    topoVars, pickVars, meshVars, appVars, clickVars, dragVars>>

\* mousedown on the dial, which is there to be pressed while it is shown:
\* onStart
CompassMouseDown(angle) ==
  /\ initState = "ready"
  /\ ~compassHidden
  /\ compassDragging' = TRUE
  /\ dragStartAngle' = angle
  /\ rotationAtStart' = compassRotation
  /\ UNCHANGED <<compassRotation, userRotation, pending, notCompass>>

\* touchstart on the dial: onStart
CompassTouchStart(angle) ==
  /\ initState = "ready"
  /\ ~compassHidden
  /\ compassDragging' = TRUE
  /\ dragStartAngle' = angle
  /\ rotationAtStart' = compassRotation
  /\ UNCHANGED <<compassRotation, userRotation, pending, notCompass>>

\* document mousemove: onMove, which turns the dial and calls
\* overlay.setRotation while dragging is set
CompassMouseMove(angle) ==
  /\ initState = "ready"
  /\ IF compassDragging
       THEN /\ Abs(rotationAtStart + (angle - dragStartAngle)) <= MaxCompassTurn
            /\ compassRotation' = rotationAtStart + (angle - dragStartAngle)
            /\ userRotation' = rotationAtStart + (angle - dragStartAngle)
            /\ pending' = Pended
       ELSE UNCHANGED <<compassRotation, userRotation, pending>>
  /\ UNCHANGED <<compassDragging, dragStartAngle, rotationAtStart, notCompass>>

\* document touchmove: onMove
CompassTouchMove(angle) ==
  /\ initState = "ready"
  /\ IF compassDragging
       THEN /\ Abs(rotationAtStart + (angle - dragStartAngle)) <= MaxCompassTurn
            /\ compassRotation' = rotationAtStart + (angle - dragStartAngle)
            /\ userRotation' = rotationAtStart + (angle - dragStartAngle)
            /\ pending' = Pended
       ELSE UNCHANGED <<compassRotation, userRotation, pending>>
  /\ UNCHANGED <<compassDragging, dragStartAngle, rotationAtStart, notCompass>>

\* document mouseup: onEnd
CompassMouseUp ==
  /\ initState = "ready"
  /\ compassDragging' = FALSE
  /\ UNCHANGED <<compassRotation, userRotation, pending, dragStartAngle, rotationAtStart,
                 notCompass>>

\* document touchend: onEnd
CompassTouchEnd ==
  /\ initState = "ready"
  /\ compassDragging' = FALSE
  /\ UNCHANGED <<compassRotation, userRotation, pending, dragStartAngle, rotationAtStart,
                 notCompass>>

CompassNext ==
  \/ PrimaryResolves(DragCatalog)
  \/ SecondaryRejects
  \/ CompleteInit
  \/ (Len(overlaySlots) < MaxDragRows /\ AddRow)
  \/ \E row \in 1..MaxDragRows, f \in AppFeatures : SelectInRow(row, f)
  \/ \E row \in 1..MaxDragRows : ClearRow(row)
  \/ \E a \in CompassAngles : CompassMouseDown(a)
  \/ \E a \in CompassAngles : CompassTouchStart(a)
  \/ \E a \in CompassAngles : CompassMouseMove(a)
  \/ \E a \in CompassAngles : CompassTouchMove(a)
  \/ CompassMouseUp
  \/ CompassTouchEnd
  \/ AppFrame

SpecCompass == Init /\ [][CompassNext]_vars

\* The start-up with the pointer on the canvas: the Globe init() constructs
\* before it awaits the loads has installed its pointer listeners.
StartupPixels == { <<400, 300>>, <<404, 300>> }

StartupNext ==
  \/ \E list \in {c \in Catalogs : Len(c) = 1} : PrimaryResolves(list)
  \/ PrimaryRejects
  \/ \E subs \in AppSubdivisions : SecondaryResolves(subs)
  \/ SecondaryRejects
  \/ CompleteInit
  \/ \E n \in PickPoints : Hover(n)
  \/ \E pixel \in StartupPixels : MouseDown(pixel)
  \/ \E pixel \in StartupPixels : CanvasClick(pixel)
  \/ AppFrame

SpecStartup == InitPick /\ [][StartupNext]_vars

Next ==
  \/ \E f \in FeatureNames, i \in SlotIndices : Show(f, i)
  \/ \E i \in SlotIndices : Clear(i)
  \/ ClearAll
  \/ \E r \in TwistAngles : SetRotation(r)
  \/ \E i \in SlotIndices, n \in ScreenPoints : SetDisplayNDC(i, n)
  \/ Update
  \/ \E p \in Cameras : MoveCamera(p)

Spec == Init /\ [][Next]_vars

\* ------------------------------------------------------------------------
\* Properties of the overlay engine
\* ------------------------------------------------------------------------
MeshesOf(children) == SelectSeq(children, LAMBDA child : child.isMesh)

RECURSIVE VertexCountOf(_)
VertexCountOf(children) ==
  IF children = <<>> THEN 0
  ELSE Head(children).vertexCount + VertexCountOf(Tail(children))

RECURSIVE AllGeometries(_, _)
AllGeometries(ss, i) ==
  IF i >= NUM_SLOTS THEN EmptyBag
  ELSE GeometriesOf(ss[i].children) (+) AllGeometries(ss, i + 1)

SlotFrame(ss, i) ==
  <<ss[i].active, ss[i].country, ss[i].originalCentroidDir, ss[i].displayNDC,
    ss[i].children>>

\* C2: slots are independent.  A step show(f, j), clear(j) or
\* setDisplayNDC(j, ndc) leaves the active flag, feature, centroid
\* direction, display coordinate and children of every slot i # j unchanged.
C2_SlotsIndependent ==
  [][\A j \in SlotIndices : \A i \in SlotIndices \ {j} :
       \/ SlotFrame(slots', i) = SlotFrame(slots, i)
       \/ ~ ( \/ \E f \in FeatureNames : Show(f, j)
              \/ Clear(j)
              \/ \E n \in ScreenPoints : SetDisplayNDC(j, n) )]_vars

\* slot 0 holds one feature, slot 1 another, slot 2 a display position
C2_Witness ==
  /\ slots[0].active /\ slots[0].country = "poly" /\ slots[0].children # <<>>
  /\ slots[1].active /\ slots[1].country = "multi" /\ slots[1].children # <<>>
  /\ slots[1].displayNDC # NONE
  /\ slots[0].displayNDC = NONE
  /\ lastCall[2] = "clear"

\* C3: the centroid direction of an active slot is the one its last show
\* computed, whatever update(), setRotation(), setDisplayNDC() and the
\* show / clear calls on other slots have done since.
C3_CentroidSetOnce ==
  \A i \in SlotIndices :
    slots[i].active => slots[i].originalCentroidDir = shownCentroid[i]

\* a shown slot that has since been given a display position and a twist
\* and has been through an update() with them
C3_Witness ==
  \E i \in SlotIndices :
    /\ slots[i].active
    /\ slots[i].originalCentroidDir # NONE
    /\ slots[i].displayNDC # NONE
    /\ userRotation # 0
    /\ pending = 0
    /\ slots[i].quaternion =
         slotRotation(slots[i].originalCentroidDir, slots[i].displayNDC,
                      cameraPosition, userRotation)

\* C4: after update(), the rotation of every active slot maps the slot's
\* centroid direction onto its target direction (the camera direction, or
\* the re-projected display coordinate), for every twist angle.
C4_RotationMapsCentroidToTarget ==
  pending = 0 =>
    \A i \in SlotIndices :
      (slots[i].active /\ slots[i].originalCentroidDir # NONE) =>
        applyQuaternion(slots[i].originalCentroidDir, slots[i].quaternion)
          = targetDirOf(slots[i].displayNDC, cameraPosition)

\* C5: the rotation is recomputed from scratch.  Once update() has run
\* with the current inputs, running it again changes nothing, and what it
\* computes does not depend on the rotation the slot had before.
C5_RotationFromScratch ==
  pending = 0 =>
    /\ update(slots, cameraPosition, userRotation) = slots
    /\ \A i \in SlotIndices :
         update([slots EXCEPT ![i].quaternion = IdentityQuaternion],
                cameraPosition, userRotation)[i].quaternion = slots[i].quaternion

\* an updated, twisted slot whose rotation is not the identity
C5_Witness ==
  /\ pending = 0
  /\ userRotation # 0
  /\ \E i \in SlotIndices :
       /\ slots[i].active
       /\ slots[i].originalCentroidDir # NONE
       /\ slots[i].quaternion # IdentityQuaternion

\* C6: show replaces what the slot held.  After show(f, i) every child of
\* slot i is built from a ring of f and no child appears twice; and if the
\* slot already held f, it has as many meshes, as many mesh vertices and
\* the same centroid direction as before.
C6_ShowIdempotent ==
  [][\A i \in SlotIndices, f \in FeatureNames :
       (lastCall'[i] = "show" /\ slots'[i].country = f /\ Show(f, i)) =>
         LET before == slots[i]
             after == slots'[i]
         IN  /\ \A k \in 1..Len(after.children) :
                  /\ \E r \in 1..Len(RingsOf(Features[f].geometry)) :
                       after.children[k].geometry[3] = RingsOf(Features[f].geometry)[r]
                  /\ \A m \in 1..Len(after.children) :
                       after.children[m].geometry = after.children[k].geometry => m = k
             /\ (before.active /\ before.country = f) =>
                  /\ Len(MeshesOf(after.children)) = Len(MeshesOf(before.children))
                  /\ VertexCountOf(MeshesOf(after.children))
                       = VertexCountOf(MeshesOf(before.children))
                  /\ Len(after.children) = Len(before.children)
                  /\ after.originalCentroidDir = before.originalCentroidDir]_vars

\* a slot holding the multi-ring feature: one fill mesh and two outlines,
\* and no geometry besides them
C6_Witness ==
  \E i \in SlotIndices :
    /\ slots[i].active /\ slots[i].country = "multi"
    /\ Len(MeshesOf(slots[i].children)) = 1
    /\ Len(slots[i].children) = 3
    /\ BagCardinality(geometries) = 3

\* C7: no overlay geometry is orphaned.  The geometries created and not
\* yet disposed are exactly those of the children the slot groups hold.
C7_NoOrphanedGeometry == geometries = AllGeometries(slots, 0)

\* two slots hold children after a third was shown and cleared
C7_Witness ==
  \E i, j, k \in SlotIndices :
    /\ i # j
    /\ slots[i].children # <<>> /\ slots[j].children # <<>>
    /\ lastCall[k] = "clear"
    /\ BagCardinality(geometries) = Len(slots[i].children) + Len(slots[j].children)

\* ------------------------------------------------------------------------
\* Properties of the topology decoder
\* ------------------------------------------------------------------------
\* the sum of coordinate c of the first n deltas of an arc
RECURSIVE SumDeltas(_, _, _)
SumDeltas(arc, n, c) == IF n = 0 THEN 0 ELSE SumDeltas(arc, n - 1, c) + arc[n][c]

\* what arc number a (from 0) of the loaded topology must decode to
ExpectedArc(a) ==
  LET arc == topology.arcs[a + 1]
      t == topology.transform
  IN  [ k \in 1..Len(arc) |->
          IF t = NoTransform
            THEN << SumDeltas(arc, k, 1), SumDeltas(arc, k, 2) >>
            ELSE << SumDeltas(arc, k, 1) * t.scale[1] + t.translate[1],
                    SumDeltas(arc, k, 2) * t.scale[2] + t.translate[2] >> ]

ExpectedTable == [a \in 1..Len(topology.arcs) |-> ExpectedArc(a - 1)]

\* the points one arc index contributes to a ring
Contribution(i) ==
  IF i < 0 THEN Reverse(ExpectedArc(Complement(i))) ELSE ExpectedArc(i)

RECURSIVE ExpectedRingFrom(_, _)
ExpectedRingFrom(arcIndices, k) ==
  IF k > Len(arcIndices) THEN <<>>
  ELSE (IF k = 1 THEN Contribution(arcIndices[k]) ELSE Tail(Contribution(arcIndices[k])))
         \o ExpectedRingFrom(arcIndices, k + 1)

\* the rings of converted feature k, paired with the arc indices they were
\* stitched from: a set of <<arcIndices, ring>>
StitchedRings(k) ==
  LET geom == topology.objects.countries.geometries[k]
      out == features[k].geometry
  IN  IF geom.type = "Polygon"
        THEN {<<geom.arcs[r], out.coordinates[r]>> : r \in 1..Len(geom.arcs)}
      ELSE IF geom.type = "MultiPolygon"
        THEN UNION {{<<geom.arcs[q][r], out.coordinates[q][r]>> : r \in 1..Len(geom.arcs[q])} :
                      q \in 1..Len(geom.arcs)}
      ELSE {}

AllStitchedRings == UNION {StitchedRings(k) : k \in 1..Len(features)}

\* every index contributes its arc: reversed if negative, as stored if not
ArcsContributeInOrder ==
  \A sr \in AllStitchedRings : sr[2] = ExpectedRingFrom(sr[1], 1)

\* C9 as stated: a negative index contributes its arc reversed and a
\* non-negative one its arc as stored, and a ring that references arc B by
\* the complement of B's index, where B holds the points of arc A reversed,
\* is the reverse of arc A's decoded points.
C9_AsStated ==
  /\ ArcsContributeInOrder
  /\ \A sr \in AllStitchedRings :
       (Len(sr[1]) = 1 /\ sr[1][1] < 0) =>
         \A a \in 0..(Len(topology.arcs) - 1) :
           ExpectedArc(Complement(sr[1][1])) = Reverse(ExpectedArc(a))
             => sr[2] = Reverse(ExpectedArc(a))

\* C9 amended: a negative index contributes its arc reversed and a
\* non-negative one its arc as stored, so a ring that references arc B by
\* the complement of B's index, where B holds the points of arc A reversed,
\* is arc A's decoded points in stored order.
C9_ArcReversal ==
  /\ ArcsContributeInOrder
  /\ \A sr \in AllStitchedRings :
       (Len(sr[1]) = 1 /\ sr[1][1] < 0) =>
         \A a \in 0..(Len(topology.arcs) - 1) :
           ExpectedArc(Complement(sr[1][1])) = Reverse(ExpectedArc(a))
             => sr[2] = ExpectedArc(a)

\* a loaded catalog with a ring stitched from ~1 alone (arc B reversed,
\* which is arc A) and a ring stitched from a forward and a reversed arc
C9_Witness ==
  /\ loadState = "loaded"
  /\ \E sr \in AllStitchedRings :
       /\ sr[1] = <<-2>>
       /\ sr[2] = ExpectedArc(0)
       /\ sr[2] # Reverse(sr[2])
  /\ \E sr \in AllStitchedRings : sr[1] = <<-3, -1>>

\* C10: the arc table is decoded once, before any feature is converted:
\* point k of an arc is the sum of the arc's first k + 1 deltas, scaled and
\* translated per coordinate (the bare sum without a transform); and it is
\* the same table after every feature converted since.
C10_DecodedOnce == loadState # "idle" => decodedArcs = ExpectedTable

\* a transformed topology whose first feature traversed an arc in reverse,
\* with a second feature converted after it
C10_Witness ==
  /\ loadState = "loaded"
  /\ topology.transform # NoTransform
  /\ Len(features) = 2
  /\ \E sr \in StitchedRings(1) : \E k \in 1..Len(sr[1]) : sr[1][k] < 0
  /\ StitchedRings(2) # {}

\* the position in a ring stitched from arcIndices of the last point of
\* its k-th arc, if every join point is kept once
RECURSIVE JoinEnd(_, _)
JoinEnd(arcIndices, k) ==
  IF k = 0 THEN 0
  ELSE JoinEnd(arcIndices, k - 1) + Len(Contribution(arcIndices[k])) - (IF k = 1 THEN 0 ELSE 1)

\* each arc ends where the next one starts
ArcsJoin(arcIndices) ==
  \A k \in 1..(Len(arcIndices) - 1) :
    LET this == Contribution(arcIndices[k])
        next == Contribution(arcIndices[k + 1])
    IN  Len(this) > 0 /\ Len(next) > 0 /\ this[Len(this)] = next[1]

\* C11: a ring stitched from several arcs that join end to start holds the
\* points of each (possibly reversed) arc in order, each shared join point
\* once: it has sum(len(arc)) - (number of arcs - 1) points, and the point
\* after a join is the second point of the later arc.
C11_JoinPointOnce ==
  \A sr \in AllStitchedRings :
    (Len(sr[1]) > 1 /\ ArcsJoin(sr[1])) =>
      /\ Len(sr[2]) = JoinEnd(sr[1], Len(sr[1]))
      /\ \A k \in 1..Len(sr[1]) :
           LET contribution == Contribution(sr[1][k])
           IN  \A m \in 1..Len(contribution) :
                 sr[2][JoinEnd(sr[1], k) - Len(contribution) + m] = contribution[m]

\* a loaded catalog with a ring stitched from two reversed arcs of 2 and 3
\* points, which has 4 points
C11_Witness ==
  /\ loadState = "loaded"
  /\ \E sr \in AllStitchedRings :
       /\ sr[1] = <<-3, -1>>
       /\ ArcsJoin(sr[1])
       /\ Len(sr[2]) = 4

\* ------------------------------------------------------------------------
\* Properties of the sphere triangulator
\* ------------------------------------------------------------------------
\* no edge of the triangle is longer than maxEdge
EdgesWithin(triangle, maxEdge) ==
  /\ distanceToSquared(triangle[1], triangle[2]) <= maxEdge * maxEdge
  /\ distanceToSquared(triangle[2], triangle[3]) <= maxEdge * maxEdge
  /\ distanceToSquared(triangle[3], triangle[1]) <= maxEdge * maxEdge

\* The threshold a builder's meshes are held to: its maxEdge, and for the
\* overlay builder, which has none, the coarsest the program uses.
ThresholdInForce(builder) ==
  IF MeshBuilders[builder].maxEdge = NONE THEN HIT_MAX_EDGE
  ELSE MeshBuilders[builder].maxEdge

\* C12: every triangle of every fill mesh (country fill, subdivision hit
\* mesh, overlay fill) built from a ring of at least 3 non-degenerate points
\* has all three edges no longer than the max-chord threshold in force for
\* that mesh.
C12_SubdivisionBound ==
  outCount > 0 => EdgesWithin(outLast, toUnits(ThresholdInForce(meshInput.builder)))

\* the vertex has magnitude r, to the rounding of the fixed-point positions
OnSphere(vertex, r) == Abs(lengthOf(vertex) - r) <= 2

\* C13: every vertex of a sphere mesh lies on its nominal sphere: the
\* corners made from (lat, lon) have magnitude r, every midpoint made by
\* subdivision is re-projected to magnitude r (the midpoint of an edge
\* between antipodal or coincident vertices included), and so has every
\* vertex pushed onto the vertex array.
C13_VerticesOnSphere ==
  LET r == toUnits(MeshBuilders[meshInput.builder].radius)
  IN  /\ \A k \in 1..Len(workStack) :
           \A j \in 1..3 : OnSphere(workStack[k].triangle[j], r)
      /\ lastMid # NONE => OnSphere(lastMid, r)
      /\ outCount > 0 => \A j \in 1..3 : OnSphere(outLast[j], r)

\* ------------------------------------------------------------------------
\* Properties of the picker
\* ------------------------------------------------------------------------
\* the feature meshes registered for a pick path
RegisteredMeshes(path) ==
  IF path = "hover" THEN subdivisionHitMeshes \o countryFillMeshes
  ELSE Flatten([k \in 1..Len(countryMeshes) |-> countryMeshes[k].value.meshes])

\* every intersection of the ray with the given meshes, in no order
HitsOn(ray, objects) ==
  LET each == [k \in 1..Len(objects) |-> raycastOf(ray, objects[k])]
  IN  UNION {{each[k][j] : j \in 1..Len(each[k])} : k \in 1..Len(objects)}

NearestOf(hits) == {h \in hits : \A other \in hits : QLe(h.distance, other.distance)}

\* what a pick result names: the tooltip label (hover), the country (click)
IdentityOf(path, object) ==
  IF path = "hover"
    THEN (IF object.userData.type = "subdivision" THEN object.userData.name
          ELSE IF object.userData.countryName # NULL THEN object.userData.countryName
          ELSE object.userData.countryId)
    ELSE object.userData.countryId

ReportedIdentity(path, result) == IF path = "hover" THEN result.label ELSE result.countryId

\* no vertex of the mesh is on the camera's side of the globe
OnFarHemisphere(object, camPos) ==
  \A k \in 1..Len(object.vertices) : QLe(Dot(object.vertices[k], camPos), Zero)

\* the last pick was made on the scene as it is now
PickIsCurrent == lastPick.path # "none" /\ lastPick.rendered = rendered

\* the occlusion rule alone: no hit when no feature mesh is hit or the globe
\* is nearer than the nearest of them, else the identity of the nearest
PickFollowsOcclusionRule ==
  PickIsCurrent =>
    LET ray == setFromCamera(lastPick.ndc, lastPick.camera)
        hits == HitsOn(ray, RegisteredMeshes(lastPick.path))
        globeHits == globeHitsOf(ray)
        occluded == \E h \in NearestOf(hits) :
                      Len(globeHits) > 0 /\ QLt(globeHits[1].distance, h.distance)
    IN  IF hits = {} \/ occluded THEN ~lastPick.result.hit
        ELSE /\ lastPick.result.hit
             /\ \E h \in NearestOf(hits) :
                  ReportedIdentity(lastPick.path, lastPick.result)
                    = IdentityOf(lastPick.path, h.object)

FarMeshNeverReported ==
  PickIsCurrent /\ lastPick.result.hit =>
    ~OnFarHemisphere(lastPick.result.object[1], lastPick.camera)

\* C8: a pick, by hover or by click, reports no hit when the ray hits no
\* registered feature mesh or meets the globe sphere before the nearest of
\* them, and otherwise the identity of the nearest feature-mesh hit; so a
\* mesh lying entirely on the far hemisphere is never reported.
C8_PickOcclusion == PickFollowsOcclusionRule /\ FarMeshNeverReported

\* a click whose ray passes the globe without touching it reported a country
\* that lies on the far hemisphere
C8_FarCountryClicked ==
  /\ PickIsCurrent
  /\ lastPick.path = "click"
  /\ lastPick.result.hit
  /\ globeHitsOf(setFromCamera(lastPick.ndc, lastPick.camera)) = <<>>
  /\ OnFarHemisphere(lastPick.result.object[1], lastPick.camera)

\* ------------------------------------------------------------------------
\* Properties of the start-up and of the overlay rows
\* ------------------------------------------------------------------------
\* init() has gone through the two loads and the listing of the items, and
\* has rendered the catalog or given up
RenderingDone == primaryLoad = "resolved" /\ initState # "loading" /\ subdivisions.defined

\* the rings createCountryBorders goes through for the country
BorderRingsOf(country) ==
  IF country.geometry.coordinates = NULL THEN <<>> ELSE RingsOf(country.geometry)

\* a ring that may have a fill: 3 points or more without the closing point
HasThreePoints(ring) == ring # NoRing /\ Len(ring) >= 3 /\ Len(openCoordsOf(ring)) >= 3

\* C14: a bad ring never aborts the rendering of the batch: once init() has
\* rendered the catalog no exception has escaped, and every country of the
\* catalog has its entry of countryMeshes, with one outline for each of its
\* rings and no fill for a ring of fewer than 3 points.
C14_BadRingNeverAborts ==
  RenderingDone =>
    /\ rendered # "failed"
    /\ \A k \in 1..Len(countries) :
         \E entry \in {MapGet(countryMeshes, countries[k].id)},
            rings \in {BorderRingsOf(countries[k])} :
           /\ Len(entry) = 1
           /\ Len(SelectSeq(entry[1].value.meshes, LAMBDA m : m.isLine)) = Len(rings)
           /\ Len(SelectSeq(entry[1].value.meshes, LAMBDA m : ~m.isLine))
                <= Cardinality({j \in 1..Len(rings) : HasThreePoints(rings[j])})

\* ------------------------------------------------------------------------
\* Properties of the decoder on bad arc-index lists
\* ------------------------------------------------------------------------
\* an arc index that refers, itself or by its complement, to no arc of the
\* arc table
RefersToNoArc(arcIndex) ==
  (IF arcIndex < 0 THEN Complement(arcIndex) ELSE arcIndex) >= Len(topology.arcs)

BadArcList(arcIndices) ==
  arcIndices = <<>> \/ \E k \in 1..Len(arcIndices) : RefersToNoArc(arcIndices[k])

\* C15: the decoder never signals an error for a bad arc-index list: the
\* load never fails, and the ring of an empty list, or of a list with an
\* index that refers to no arc, is the empty ring.
C15_BadArcListGivesEmptyRing ==
  /\ loadState # "failed"
  /\ \A sr \in AllStitchedRings : BadArcList(sr[1]) => sr[2] = <<>>

\* init() has left its await with the primary catalog loaded
InitSettled == primaryLoad = "resolved" /\ secondaryLoad # "pending" /\ initState # "loading"

\* C16: a failure of the secondary load is absorbed.  Whenever the primary
\* load has succeeded, no error state is shown, whatever the secondary load
\* did and whenever it did it; once both loads have settled the
\* initialisation has completed: the primary catalog is listed, the
\* countries are rendered, the overlay engine exists and its frame loop
\* runs; after a failed secondary load there is no subdivision layer.
C16_SecondaryFailureAbsorbed ==
  /\ primaryLoad = "resolved" => initState # "error" /\ loadingElement # "error"
  /\ InitSettled =>
       /\ initState = "ready"
       /\ allItems.countryItems = getCountryList(countries)
       /\ rendered \in {"countries", "all"}
       /\ \A k \in 1..Len(countries) : MapGet(countryMeshes, countries[k].id) # <<>>
       /\ overlayCreated
       /\ updateLoop
       /\ secondaryLoad = "rejected" =>
            /\ allItems.subdivisionItems = {}
            /\ subdivisionHitMeshes = <<>>

\* C17: a failure of the primary load is fatal and surfaced.  Once the
\* primary load has rejected, whatever the secondary load did or does, the
\* error state is shown, there is no overlay engine, no row and no active
\* slot, and the frame loop does not run.
C17_PrimaryFailureFatal ==
  primaryLoad = "rejected" =>
    /\ initState = "error"
    /\ loadingElement = "error"
    /\ ~overlayCreated
    /\ overlaySlots = <<>>
    /\ \A i \in SlotIndices : ~slots[i].active
    /\ ~updateLoop

\* the primary load has rejected and the secondary one has resolved with
\* features after it
C17_Witness ==
  /\ primaryLoad = "rejected"
  /\ secondaryLoad = "resolved"
  /\ subdivisions.defined
  /\ Len(subdivisions.features) > 0

\* the children a slot holding feature f may have: one per geometry built
\* from a ring of f
BuiltFrom(children, f) ==
  \E geometry \in {Features[f].geometry} :
    IF geometry = NoGeometry \/ geometry.coordinates = NULL THEN children = <<>>
    ELSE \A k \in 1..Len(children) :
           /\ \E r \in 1..Len(RingsOf(geometry)) : children[k].geometry[3] = RingsOf(geometry)[r]
           /\ \A m \in 1..Len(children) : children[m].geometry = children[k].geometry => m = k

\* C18: at most 3 overlay slots exist at a time, rows of the panel as well
\* as slots of the engine, every row stands for a slot of the engine, and a
\* slot holds at most one feature: an active slot holds the feature last
\* selected for it and only children built from that feature, and an
\* inactive slot holds no feature and no child.
C18_AtMostThreeSlots ==
  /\ Len(overlaySlots) <= 3
  /\ \A row \in 1..Len(overlaySlots) : overlaySlots[row] \in SlotIndices
  /\ Cardinality(DOMAIN slots) <= 3
  /\ \A i \in DOMAIN slots :
       IF slots[i].active
         THEN slots[i].country \in FeatureNames /\ BuiltFrom(slots[i].children, slots[i].country)
         ELSE slots[i].country = NULL /\ slots[i].children = <<>>

\* three rows, and a slot that holds a feature selected after another one
C18_Witness ==
  /\ Len(overlaySlots) = 3
  /\ \E i \in SlotIndices : slots[i].active /\ slots[i].country = "nogeom"
  /\ \E i \in SlotIndices : slots[i].active /\ slots[i].country = "poly" /\ slots[i].children # <<>>

\* ------------------------------------------------------------------------
\* Properties of the display position
\* ------------------------------------------------------------------------
\* C19: setDisplayNDC(i, ndc) stores the coordinate in slot i and changes
\* nothing else: the rotation of slot i, its other fields, every other
\* slot, the geometries, the twist and the camera are as before the call.
\* The next update() turns slot i by the rotation computed from the stored
\* coordinate and the camera of that update; without a twist that rotation
\* takes the centroid direction to the re-projected coordinate.
C19_DisplayPositionDeferred ==
  [][ /\ \A i \in SlotIndices, n \in ScreenPoints :
           SetDisplayNDC(i, n) =>
             /\ slots'[i].displayNDC = n
             /\ slots'[i].quaternion = slots[i].quaternion
             /\ [slots'[i] EXCEPT !.displayNDC = NONE] = [slots[i] EXCEPT !.displayNDC = NONE]
             /\ \A j \in SlotIndices \ {i} : slots'[j] = slots[j]
             /\ UNCHANGED <<geometries, userRotation, cameraPosition>>
      /\ Update =>
           \A i \in SlotIndices :
             (slots[i].active /\ slots[i].originalCentroidDir # NONE
                /\ slots[i].displayNDC # NONE) =>
               /\ slots'[i].quaternion =
                    rotationOf(slots[i].originalCentroidDir, slots[i].displayNDC,
                                 cameraPosition, userRotation)
               /\ userRotation = 0 =>
                    applyQuaternion(slots[i].originalCentroidDir, slots'[i].quaternion)
                      = targetDirOf(slots[i].displayNDC, cameraPosition) ]_vars

\* a slot that has been given a display position no update() has yet
\* turned it to
C19_Witness ==
  \E i \in SlotIndices :
    /\ slots[i].active
    /\ slots[i].originalCentroidDir # NONE
    /\ slots[i].displayNDC # NONE
    /\ pending > 0
    /\ slots[i].quaternion # IdentityQuaternion
    /\ slots[i].quaternion #
         slotRotation(slots[i].originalCentroidDir, slots[i].displayNDC,
                      cameraPosition, userRotation)

\* ------------------------------------------------------------------------
\* Properties of the centroid direction
\* ------------------------------------------------------------------------
\* the points of all the rings of a geometry, on the unit sphere
UnitSpherePoints(geometry) ==
  Flatten([k \in 1..Len(RingsOf(geometry)) |-> coordsToVectors(RingsOf(geometry)[k], One)])

YieldsNoPoints(geometry) ==
  \/ geometry = NoGeometry
  \/ geometry.coordinates = NULL
  \/ UnitSpherePoints(geometry) = <<>>

DefaultDirection == Vec(0, 0, 1)

\* C20: every show computes and freezes a centroid direction.  An active
\* slot has a centroid direction; it is a unit vector; and it is the
\* re-normalised mean of the unit-sphere points of all the rings of the
\* slot's feature, or the default direction if the geometry of the feature
\* is missing, empty or yields no points.
C20_CentroidOfEveryActiveSlot ==
  \A i \in SlotIndices :
    slots[i].active =>
      \E geometry \in {Features[slots[i].country].geometry},
         centroid \in {slots[i].originalCentroidDir} :
        /\ centroid # NONE
        /\ LengthSq(centroid) = One
        /\ centroid =
             IF YieldsNoPoints(geometry) THEN DefaultDirection
             ELSE Normalize(VScale(SumSeq(UnitSpherePoints(geometry)),
                                   QDiv(One, I2Q(Len(UnitSpherePoints(geometry))))))

\* ------------------------------------------------------------------------
\* Properties of the pointer on the canvas
\* ------------------------------------------------------------------------
SquaredDisplacement(down, at) ==
  (at[1] - down[1]) * (at[1] - down[1]) + (at[2] - down[2]) * (at[2] - down[2])

\* C21: a click reaches the picker if and only if the pointer moved no more
\* than the threshold since the preceding press (squared displacement at
\* most 9).  A click that reaches it is picked at the place of the click; a
\* click that moved farther changes neither the selection nor the record of
\* the last pick.
C21_ClickThreshold ==
  [][\A pixel \in Pixels :
       CanvasClick(pixel) =>
         /\ lastClick'.reached <=> SquaredDisplacement(mouseDownPos, pixel) <= 9
         /\ SquaredDisplacement(mouseDownPos, pixel) <= 9 =>
              /\ lastPick'.path = "click"
              /\ lastPick'.ndc = screenPointOf(pixel)
              /\ lastPick'.result.hit => clicked' = lastPick'.result
         /\ SquaredDisplacement(mouseDownPos, pixel) > 9 =>
              /\ clicked' = clicked
              /\ lastPick' = lastPick]_vars

\* a click exactly 3 pixels from its press has selected a country
C21_Witness ==
  /\ lastClick.reached
  /\ SquaredDisplacement(lastClick.down, lastClick.at) = 9
  /\ lastPick.path = "click"
  /\ clicked.hit

\* ------------------------------------------------------------------------
\* Properties of show and of the display position it starts from
\* ------------------------------------------------------------------------
\* C22: show orients the slot before it returns.  After show(f, i) the
\* rotation of slot i is the one update() computes from the camera, the
\* target mode and the twist of that moment: an update() right after the
\* call would leave the slot as it is, and a slot that has children has the
\* rotation of its centroid direction towards its target.
C22_ShowOrients ==
  [][\A f \in FeatureNames, i \in SlotIndices :
       (lastCall'[i] = "show" /\ slots'[i].country = f /\ Show(f, i)) =>
         /\ updateSlot(slots'[i], cameraPosition', userRotation') = slots'[i]
         /\ slots'[i].children # <<>> =>
              /\ slots'[i].originalCentroidDir # NONE
              /\ slots'[i].quaternion =
                   rotationOf(slots'[i].originalCentroidDir, slots'[i].displayNDC,
                              cameraPosition', userRotation')]_vars

\* a feature shown under the second camera with a twist: its slot is turned
\* although no frame has run since the camera moved
C22_Witness ==
  \E i \in SlotIndices :
    /\ lastCall[i] = "show"
    /\ slots[i].children # <<>>
    /\ slots[i].displayNDC = NONE
    /\ cameraPosition = CameraPositions[2]
    /\ userRotation # 0
    /\ slots[i].quaternion # IdentityQuaternion
    /\ slots[i].quaternion =
         rotationOf(slots[i].originalCentroidDir, NONE, cameraPosition, userRotation)

\* the direction update() turns slot i towards when the ray through its
\* stored coordinate gives hit (NONE: no hit)
FallsBackToCamera(i, hit) ==
  /\ targetDirOf(slots[i].displayNDC, cameraPosition)
       = IF hit = NONE THEN Normalize(cameraPosition) ELSE hit
  /\ (hit = NONE /\ pending = 0 /\ slots[i].active /\ slots[i].originalCentroidDir # NONE) =>
       slots[i].quaternion
         = rotationOf(slots[i].originalCentroidDir, NONE, cameraPosition, userRotation)

LoadsCompleted == primaryLoad # "pending" /\ secondaryLoad # "pending"

\* a step in which a hover or click raycast is executed
PickingQuery ==
  \/ \E n \in PickPoints : Hover(n)
  \/ \E pixel \in StartupPixels : ~isDrag(mouseDownPos, pixel) /\ CanvasClick(pixel)

\* each load completes once: what it has delivered stays
LoadsCompleteOnce ==
  /\ primaryLoad # "pending" => primaryLoad' = primaryLoad /\ countries' = countries
  /\ secondaryLoad # "pending" => secondaryLoad' = secondaryLoad /\ subdivisions' = subdivisions
  /\ initState # "loading" => initState' = initState

\* a step of update(), or one in which a slot of the overlay engine changes
OverlayUpdate == AppFrame \/ slots' # slots

\* C24, as stated: neither an update() of the overlay engine nor a picking
\* query is executed before both loads have completed, and the loads
\* complete exactly once.
C24_AsStated ==
  [][ /\ OverlayUpdate => LoadsCompleted
      /\ PickingQuery => LoadsCompleted
      /\ LoadsCompleteOnce ]_vars

\* C24: no update() of the overlay engine is executed before both loads
\* have completed, and the loads complete exactly once.  A picking query can
\* be executed before that, the pointer listeners being installed when the
\* globe is constructed; as long as no country is rendered it finds nothing:
\* the hover handler receives null and no country is selected.
C24_NoUpdateBeforeLoad ==
  [][ /\ OverlayUpdate => LoadsCompleted /\ initState' = "ready"
      /\ (PickingQuery /\ rendered = "none") =>
           /\ hovered' = NoPick
           /\ clicked' = clicked
           /\ lastPick'.result = NoPick
      /\ rendered' # rendered => LoadsCompleted
      /\ LoadsCompleteOnce ]_vars

\* a hover and a click were handled while the loads were pending, and the
\* start-up has then completed with the countries rendered
C24_Witness ==
  /\ lastClick.reached
  /\ lastPick.path = "hover"
  /\ lastPick.rendered = "none"
  /\ initState = "ready"
  /\ rendered # "none"
  /\ updateLoop

\* ------------------------------------------------------------------------
\* Properties of the rows and their slots
\* ------------------------------------------------------------------------
\* C25: the rows that exist at the same time have pairwise distinct slot
\* indices in {0, 1, 2}: no two rows drive the same slot of the engine.
C25_RowsHaveDistinctSlots ==
  /\ \A row \in 1..Len(overlaySlots) : overlaySlots[row] \in 0..2
  /\ \A row \in 1..Len(overlaySlots), other \in 1..Len(overlaySlots) :
       row # other => overlaySlots[row] # overlaySlots[other]

\* ------------------------------------------------------------------------
\* Properties of the selector items
\* ------------------------------------------------------------------------
\* C26: the ids of the subdivision items round-trip.  For every item of
\* getSubdivisionList(), getSubdivisionById(id) returns a feature, and its
\* name is the item's name.
C26_SubdivisionIdsRoundTrip ==
  initState = "ready" =>
    \A item \in allItems.subdivisionItems :
      \E found \in {getSubdivisionById(subdivisions.features, item.id)} :
        /\ found # <<>>
        /\ found[1].properties.name = item.name

\* C27: the ids of the country items round-trip.  For the item built from
\* a feature of the catalog, getCountryById(id) returns that very feature;
\* and the mesh registry of the globe holds one entry per rendered country,
\* the entry of a country's id being that country's.
C27_CountryIdsRoundTrip ==
  (initState = "ready" /\ rendered # "failed") =>
    /\ \A k \in 1..Len(countries) :
         /\ \E item \in allItems.countryItems : item.id = countries[k].id
         /\ getCountryById(countries, countries[k].id) = <<countries[k]>>
         /\ \E entry \in {MapGet(countryMeshes, countries[k].id)} :
              Len(entry) = 1 /\ entry[1].value.country = countries[k]
    /\ Len(countryMeshes) = Len(countries)

\* ------------------------------------------------------------------------
\* Properties of the overlay drag
\* ------------------------------------------------------------------------
\* C28: every show(f, i) starts slot i in camera-facing mode.  After a
\* feature is selected in a row the slot of the row holds no display
\* position, and if it has a centroid direction it is turned as update()
\* turns a slot without display position, whatever coordinate the pointer
\* stored in the slot before.  A frame leaves every inactive slot as it is,
\* whatever coordinate it holds.
C28_ShowStartsCameraFacing ==
  [][ /\ \A row \in 1..MaxDragRows :
           (row <= Len(overlaySlots) /\ lastCall'[overlaySlots[row]] = "show") =>
             \E i \in {overlaySlots[row]} :
               \A f \in DragFeatures :
                 (slots'[i].country = f /\ SelectInRow(row, f)) =>
                   /\ slots'[i].active
                   /\ slots'[i].displayNDC = NONE
                   /\ slots'[i].originalCentroidDir # NONE =>
                        slots'[i].quaternion =
                          rotationOf(slots'[i].originalCentroidDir, NONE,
                                     cameraPosition', userRotation')
      /\ \A i \in SlotIndices :
           (~slots[i].active /\ slots'[i] # slots[i]) => ~AppFrame ]_vars

\* a slot shown after the pointer stored a coordinate in it faces the
\* camera, which is not where the coordinate would have put it; another
\* slot, inactive, holds the coordinate a drag gave it after it was cleared
C28_Witness ==
  /\ \E i \in SlotIndices :
       /\ lastCall[i] = "show"
       /\ slots[i].children # <<>>
       /\ storedNDC[i] # NONE
       /\ slots[i].displayNDC = NONE
       /\ slots[i].quaternion =
            rotationOf(slots[i].originalCentroidDir, NONE, cameraPosition, userRotation)
       /\ slots[i].quaternion #
            rotationOf(slots[i].originalCentroidDir, storedNDC[i], cameraPosition, userRotation)
  /\ \E j \in SlotIndices :
       /\ ~slots[j].active
       /\ slots[j].displayNDC # NONE
       /\ pending = 0

\* ------------------------------------------------------------------------
\* the distances at which the ray through the screen point n meets the fill
\* meshes of slot i, if the slot is active
FillHits(i, n) ==
  IF ~slots[i].active THEN <<>>
  ELSE Flatten([k \in 1..Len(slots[i].children) |->
         IF slots[i].children[k].isMesh
           THEN raycastOverlayMesh(setFromCamera(n, cameraPosition), slots[i].children[k],
                                   slots[i].quaternion)
           ELSE <<>>])

\* slot i has a fill mesh under n, and no slot has one nearer
NearestUnder(i, n) ==
  \E hits \in {[j \in SlotIndices |-> FillHits(j, n)]} :
    /\ hits[i] # <<>>
    /\ \A j \in SlotIndices :
         \A k \in 1..Len(hits[j]) :
           \E m \in 1..Len(hits[i]) : QLe(hits[i][m].distance, hits[j][k].distance)

\* C29: the orbit controls are enabled exactly while no overlay is dragged
\* (draggingSlot = -1), in every state and after every step.  A drag starts
\* only on a press over a fill mesh of an active slot and is that of the
\* slot whose mesh is nearest under the pointer; every release, of the
\* mouse or of a touch, ends the drag and enables the controls again.
C29_ControlsFollowDrag ==
  [][ /\ controlsEnabled <=> draggingSlot = -1
      /\ controlsEnabled' <=> draggingSlot' = -1
      /\ (draggingSlot' # draggingSlot /\ draggingSlot' # -1) =>
           /\ slots[draggingSlot'].active
           /\ \E n \in DragPressPoints :
                /\ NearestUnder(draggingSlot', n)
                /\ DragMouseDown(n) \/ DragTouchStart(n)
      /\ (draggingSlot' # -1 \/ ~controlsEnabled') => ~(DragMouseUp \/ DragTouchEnd) ]_vars

\* the second slot is dragged while the first one shows a triangle too, and
\* the controls are disabled
C29_Witness ==
  /\ draggingSlot = 1
  /\ ~controlsEnabled
  /\ slots[0].active /\ slots[0].children # <<>>
  /\ slots[1].active /\ slots[1].displayNDC # NONE

\* ------------------------------------------------------------------------
\* Properties of the compass
\* ------------------------------------------------------------------------
\* C30: whenever no overlay slot is active the shared twist is 0 and the
\* compass control is hidden, before and after every step, whichever way
\* selections, clears and the presses, moves and releases of a compass drag
\* follow one another; so the overlay shown first after all were cleared is
\* turned with a twist of 0.
C30_NoOverlayNoTwist ==
  [][ /\ ~hasAnyOverlay(slots) => (userRotation = 0 /\ compassRotation = 0 /\ compassHidden)
      /\ ~hasAnyOverlay(slots') => (userRotation' = 0 /\ compassRotation' = 0 /\ compassHidden')
      /\ (~hasAnyOverlay(slots) /\ hasAnyOverlay(slots')) => userRotation' = 0 ]_vars

====
